---- MODULE Spec2Model ----
(***************************************************************************)
(* blang: a tree-walking interpreter for the Monkey language.              *)
(*                                                                         *)
(* The module models the evaluator of src/src/statements.rs (the eval and  *)
(* update_env methods of every ProgramNode), the Environment of            *)
(* src/src/environment.rs and the session object Program of                *)
(* src/src/program.rs (new / extend / eval).                               *)
(*                                                                         *)
(* AST nodes and runtime objects are records.  A field name is used with   *)
(* one type only, so the i64 of an IntegerLiteralExpression is `int`, the  *)
(* bool of a BooleanExpression is `bool`, the String of an                 *)
(* IdentifierExpression is `id`; Let/Return keep `value` for their child   *)
(* node.  Option::None is the object NoneObj.                              *)
(*                                                                         *)
(* Every evaluation returns, next to the result and the environment it     *)
(* leaves behind, an observation log `recs`: one record per evaluated      *)
(* composite node, holding the node, the environment it was entered with,  *)
(* the children that were actually evaluated (in order, with the           *)
(* environment each child was given and what it returned) and the node's   *)
(* own result.  The log never influences a result.                         *)
(***************************************************************************)
EXTENDS Integers, Sequences, FiniteSets, TLC

-----------------------------------------------------------------------------
(* Bounds of the model *)

\* total number of top-level statements a session may hold
MaxStatements == 4

-----------------------------------------------------------------------------
(* Runtime objects: src/src/types.rs *)

IntegerObj(n) == [type |-> "INTEGER", ival |-> n]

BooleanObj(b) == [type |-> "BOOLEAN", bval |-> b]

ErrorObj(m) == [type |-> "ERROR", message |-> m]

FunctionObj(params, body, env) ==
    [type |-> "FUNCTION", parameters |-> params, body |-> body, env |-> env]

\* Option::None of Option<Box<dyn Object>>
NoneObj == [type |-> "NONE"]

is_some(o) == o.type # "NONE"

\* a slip: the type tag compared is the wrong one
is_error_WrongTag(o) == is_some(o) /\ o.type = "NULL"

is_error(o) == is_some(o) /\ o.type = "ERROR"

-----------------------------------------------------------------------------
(* Environment: src/src/environment.rs.  The store is a function from the  *)
(* bound keys to objects.                                                  *)

EnvNew == << >>

\* a slip: insert only where the key is absent
EnvUpdate_KeepFirst(env, key, value) ==
    [k \in (DOMAIN env) \cup {key} |-> IF k \in DOMAIN env THEN env[k] ELSE value]

\* HashMap::insert: the key's old value, if any, is replaced
EnvUpdate(env, key, value) ==
    [k \in (DOMAIN env) \cup {key} |-> IF k = key THEN value ELSE env[k]]

EnvHasKey(env, key) == key \in DOMAIN env

\* a slip: the key is left out of the message
EnvGet_NoName(env, key) ==
    IF key \notin DOMAIN env
    THEN ErrorObj("unknown identifier")
    ELSE env[key]

\* Environment::get: an Error for an absent key, else get_box of the value
EnvGet(env, key) ==
    IF key \notin DOMAIN env
    THEN ErrorObj("unknown identifier: " \o key)
    ELSE env[key]

\* get_copy rebuilds the map entry by entry with get_box (a deep copy)
EnvGetCopy(env) == [k \in DOMAIN env |-> env[k]]

-----------------------------------------------------------------------------
(* AST nodes: the structs of src/src/statements.rs *)

IdentifierExpression(name) == [kind |-> "Identifier", id |-> name]

IntegerLiteralExpression(n) == [kind |-> "IntegerLiteral", int |-> n]

BooleanExpression(b) == [kind |-> "Boolean", bool |-> b]

PrefixExpression(op, right) ==
    [kind |-> "Prefix", operator |-> op, right |-> right]

InfixExpression(left, op, right) ==
    [kind |-> "Infix", left |-> left, operator |-> op, right |-> right]

BlockStatement(stmts) == [kind |-> "Block", token |-> "{", statements |-> stmts]

\* IfExpression.alternative is an Option; NoNode is its None
NoNode == [kind |-> "NoNode"]

IfExpression(cond, cons, alt) ==
    [kind |-> "If", condition |-> cond, consequence |-> cons, alternative |-> alt]

FunctionLiteralExpression(params, body) ==
    [kind |-> "FunctionLiteral", parameters |-> params, body |-> body]

CallExpression(function, args) ==
    [kind |-> "Call", function |-> function, arguments |-> args]

LetStatement(name, value) ==
    [kind |-> "Let", token |-> "let", name |-> name, value |-> value]

ReturnStatement(value) ==
    [kind |-> "Return", token |-> "return", value |-> value]

Digits == <<"0", "1", "2", "3", "4", "5", "6", "7", "8", "9">>

\* decimal text of a literal 0..99, as the lexer read it
IntToStr(n) ==
    IF n < 10 THEN Digits[n + 1]
    ELSE Digits[(n \div 10) + 1] \o Digits[(n % 10) + 1]

\* The literal of the token the parser stands on when parse_expression
\* returns (the last token of the expression, written without grouping
\* parentheses).
RECURSIVE LastTokenLiteral(_)
LastTokenLiteral(e) ==
    CASE e.kind = "Identifier" -> e.id
      [] e.kind = "IntegerLiteral" -> IntToStr(e.int)
      [] e.kind = "Boolean" -> IF e.bool THEN "true" ELSE "false"
      [] e.kind = "Prefix" -> LastTokenLiteral(e.right)
      [] e.kind = "Infix" -> LastTokenLiteral(e.right)
      [] e.kind = "If" -> "}"
      [] e.kind = "FunctionLiteral" -> "}"
      [] e.kind = "Call" -> ")"

\* parse_expression_statement stores the parser's current token AFTER the
\* expression was parsed
ExpressionStatement(e) ==
    [kind |-> "ExpressionStatement", token |-> LastTokenLiteral(e), expression |-> e]

\* token_literal() of a parameter (an IdentifierExpression) is its name
ParamName(p) == p.id

-----------------------------------------------------------------------------
(* Observation log *)

\* what one eval call hands back: the Option<Box<dyn Object>>, the
\* environment as the call left it, whether the host panicked, and the log;
\* `ret` tells that the result is the value of a `return` statement that ran
\* in this node (not inside a function it called)
Out(res, env, ret, panic, recs) ==
    [res |-> res, env |-> env, ret |-> ret, panic |-> panic, recs |-> recs]

\* one evaluated child of a composite node: the environment it was given,
\* what its eval returned and left behind, and (for a statement of a block
\* or of the program) the pairs its update_env handed back
Kid(node, envIn, r, upd) ==
    [node |-> node, envIn |-> envIn, res |-> r.res, ret |-> r.ret,
     panic |-> r.panic, envOut |-> r.env, upd |-> upd]

\* the log record of one composite node
Rec(node, envIn, kids, res, envOut, panic) ==
    [node |-> node, envIn |-> envIn, kids |-> kids, res |-> res,
     envOut |-> envOut, panic |-> panic]

Finish(node, envIn, kids, res, envOut, ret, panic, recs) ==
    Out(res, envOut, ret, panic,
        Append(recs, Rec(node, envIn, kids, res, envOut, panic)))

-----------------------------------------------------------------------------
(* Operators of the language *)

\* {:?} of a Type
TypeName(o) == o.type

\* a slip: the quotient is floored
TruncDiv_Floored(a, b) ==
    IF b > 0 THEN a \div b ELSE (0 - a) \div (0 - b)

\* i64 `/` truncates toward zero
TruncDiv(a, b) ==
    LET absq == (IF a < 0 THEN -a ELSE a) \div (IF b < 0 THEN -b ELSE b)
    IN  IF (a < 0) = (b < 0) THEN absq ELSE -absq

\* a slip: `-` of a non-integer reported as an unknown operator
PrefixApply_MinusUnknown(op, right) ==
    CASE op = "!" ->
           IF right.type = "BOOLEAN"
           THEN BooleanObj(~right.bval)
           ELSE BooleanObj(FALSE)
      [] op = "-" ->
           IF right.type = "INTEGER"
           THEN IntegerObj(-right.ival)
           ELSE ErrorObj("unknown operator: -" \o TypeName(right))
      [] OTHER -> ErrorObj("unknown operator: \"" \o op \o "\"")

\* the match on the operator of PrefixExpression::eval, operand not an Error
PrefixApply(op, right) ==
    CASE op = "!" ->
           IF right.type = "BOOLEAN"
           THEN BooleanObj(~right.bval)
           ELSE BooleanObj(FALSE)
      [] op = "-" ->
           IF right.type = "INTEGER"
           THEN IntegerObj(-right.ival)
           ELSE ErrorObj("invalid type: -" \o TypeName(right))
      [] OTHER -> ErrorObj("unknown operator: \"" \o op \o "\"")

\* `/` with a zero divisor panics in the host
InfixPanics(op, left, right) ==
    /\ left.type = "INTEGER"
    /\ right.type = "INTEGER"
    /\ op = "/"
    /\ right.ival = 0

\* a slip: the message names the right operand's type first
InfixApply_RightFirst(op, left, right) ==
    IF left.type = "INTEGER" /\ right.type = "INTEGER"
    THEN CASE op = "-" -> IntegerObj(left.ival - right.ival)
           [] op = "+" -> IntegerObj(left.ival + right.ival)
           [] op = "/" -> IntegerObj(TruncDiv(left.ival, right.ival))
           [] op = "*" -> IntegerObj(left.ival * right.ival)
           [] op = ">" -> BooleanObj(left.ival > right.ival)
           [] op = "<" -> BooleanObj(left.ival < right.ival)
           [] op = "==" -> BooleanObj(left.ival = right.ival)
           [] op = "!=" -> BooleanObj(left.ival # right.ival)
           [] OTHER -> NoneObj
    ELSE IF left.type = "BOOLEAN" /\ right.type = "BOOLEAN"
    THEN CASE op = "==" -> BooleanObj(left.bval = right.bval)
           [] op = "!=" -> BooleanObj(left.bval # right.bval)
           [] OTHER -> NoneObj
    ELSE ErrorObj("type mismatch: " \o TypeName(right) \o " " \o op \o " "
                    \o TypeName(left))

\* the type dispatch of InfixExpression::eval, both operands present and
\* neither an Error
InfixApply(op, left, right) ==
    IF left.type = "INTEGER" /\ right.type = "INTEGER"
    THEN CASE op = "-" -> IntegerObj(left.ival - right.ival)
           [] op = "+" -> IntegerObj(left.ival + right.ival)
           [] op = "/" -> IntegerObj(TruncDiv(left.ival, right.ival))
           [] op = "*" -> IntegerObj(left.ival * right.ival)
           [] op = ">" -> BooleanObj(left.ival > right.ival)
           [] op = "<" -> BooleanObj(left.ival < right.ival)
           [] op = "==" -> BooleanObj(left.ival = right.ival)
           [] op = "!=" -> BooleanObj(left.ival # right.ival)
           [] OTHER -> NoneObj
    ELSE IF left.type = "BOOLEAN" /\ right.type = "BOOLEAN"
    THEN CASE op = "==" -> BooleanObj(left.bval = right.bval)
           [] op = "!=" -> BooleanObj(left.bval # right.bval)
           [] OTHER -> NoneObj
    ELSE ErrorObj("type mismatch: " \o TypeName(left) \o " " \o op \o " "
                    \o TypeName(right))

\* a slip: Integer 0 sends the if-expression to its alternative
UseFirst_ZeroFalsy(cond) ==
    IF is_some(cond)
    THEN IF cond.type = "BOOLEAN" THEN cond.bval
         ELSE IF cond.type = "INTEGER" THEN cond.ival # 0
         ELSE TRUE
    ELSE FALSE

\* use_first of IfExpression::eval
UseFirst(cond) ==
    IF is_some(cond)
    THEN IF cond.type = "BOOLEAN" THEN cond.bval ELSE TRUE
    ELSE FALSE

-----------------------------------------------------------------------------
(* The evaluator: eval and update_env of src/src/statements.rs *)

\* BlockStatement::eval: `statement.token_literal().unwrap() == "return"`
IsReturnToken(stmt) == stmt.token = "return"

\* a slip: the top-level loop does not look for `return`
TopLevelIsReturn_Never(stmt) == FALSE

\* Program::eval: `self.statements[idx].token_literal().unwrap() == "return"`
TopLevelIsReturn(stmt) == stmt.token = "return"

\* a slip: the call works on the caller's environment itself
CallerEnvAfterCall_Shared(callerEnv, scopedEnv) == scopedEnv

\* CallExpression::eval works on scoped_env, a copy; the caller's _env is
\* never written
CallerEnvAfterCall(callerEnv, scopedEnv) == callerEnv

\* the `for update in unwrapped { env.update(update.0, update.1) }` loops
RECURSIVE ApplyUpdates(_, _)
ApplyUpdates(env, upd) ==
    IF upd = << >> THEN env
    ELSE ApplyUpdates(EnvUpdate(env, upd[1].key, upd[1].obj), Tail(upd))

\* what update_env hands back: the Vec of (key, object) pairs (empty for
\* None), the environment, panic, log
Upd(upd, env, panic, recs) ==
    [upd |-> upd, env |-> env, panic |-> panic, recs |-> recs]

RECURSIVE Eval(_, _)
RECURSIVE BlockLoop(_, _, _, _, _, _, _)
RECURSIVE CallArguments(_, _, _, _, _, _)
RECURSIVE UpdateEnv(_, _)

\* LetStatement::update_env once `self.value.eval(env)` has handed back r
LetUpdate(node, r) ==
    IF r.panic THEN Upd(<< >>, r.env, TRUE, r.recs)
    ELSE IF is_some(r.res)
    THEN Upd(<<[key |-> node.name, obj |-> r.res]>>, r.env, FALSE, r.recs)
    ELSE Upd(<< >>, r.env, FALSE, r.recs)

\* <node>::update_env(env)
UpdateEnv(node, env) ==
    CASE node.kind = "Let" -> LetUpdate(node, Eval(node.value, env))
      [] node.kind = "ExpressionStatement" -> UpdateEnv(node.expression, env)
      \* todo!()
      [] node.kind = "FunctionLiteral" -> Upd(<< >>, env, TRUE, << >>)
      \* Return, Identifier, IntegerLiteral, Boolean, Prefix, Infix, If, Call
      [] OTHER -> Upd(<< >>, env, FALSE, << >>)

\* BlockStatement::eval, statement i: its update_env has handed back u
BlockUpdate(node, envIn, i, env, kids, rc, r, u) ==
    LET ku == Append(kids, Kid(node.statements[i], env, r, u.upd))
    IN  IF u.panic
        THEN Finish(node, envIn, ku, NoneObj, u.env, FALSE, TRUE, rc \o u.recs)
        ELSE BlockLoop(node, envIn, i + 1, ApplyUpdates(u.env, u.upd), r, ku,
                       rc \o u.recs)

\* BlockStatement::eval, statement i: its eval has handed back r
BlockStep(node, envIn, i, env, kids, recs, r) ==
    LET s == node.statements[i]
        k == Append(kids, Kid(s, env, r, << >>))
        rc == recs \o r.recs
    IN  IF r.panic
        THEN Finish(node, envIn, k, NoneObj, r.env, FALSE, TRUE, rc)
        ELSE IF IsReturnToken(s)
        THEN Finish(node, envIn, k, r.res, r.env, r.ret, FALSE, rc)
        ELSE IF is_error(r.res)
        THEN Finish(node, envIn, k, r.res, r.env, r.ret, FALSE, rc)
        ELSE BlockUpdate(node, envIn, i, env, kids, rc, r, UpdateEnv(s, r.env))

\* the loop of BlockStatement::eval from statement i on; `last` is what the
\* statement before handed back
BlockLoop(node, envIn, i, env, last, kids, recs) ==
    IF i > Len(node.statements)
    THEN Finish(node, envIn, kids, last.res, env, last.ret, FALSE, recs)
    ELSE BlockStep(node, envIn, i, env, kids, recs,
                   Eval(node.statements[i], env))

\* what the argument loop hands back
Args(env, kids, recs, panic) ==
    [env |-> env, kids |-> kids, recs |-> recs, panic |-> panic]

\* a slip: an argument beyond the parameter list is evaluated and dropped
CallArgument_ExtraDropped(node, params, idx, scoped, kids, recs, a) ==
    LET k == Append(kids, Kid(node.arguments[idx], scoped, a, << >>))
        rc == recs \o a.recs
    IN  IF a.panic \/ ~is_some(a.res)
        THEN Args(a.env, k, rc, TRUE)
        ELSE IF idx > Len(params)
        THEN CallArguments(node, params, idx + 1, a.env, k, rc)
        ELSE CallArguments(node, params, idx + 1,
                           EnvUpdate(a.env, ParamName(params[idx]), a.res),
                           k, rc)

\* the argument loop of CallExpression::eval, argument idx: its eval has
\* handed back a
CallArgument(node, params, idx, scoped, kids, recs, a) ==
    LET k == Append(kids, Kid(node.arguments[idx], scoped, a, << >>))
        rc == recs \o a.recs
    IN  \* .unwrap() of the argument, then parameters[idx]
        IF a.panic \/ ~is_some(a.res) \/ idx > Len(params)
        THEN Args(a.env, k, rc, TRUE)
        ELSE CallArguments(node, params, idx + 1,
                           EnvUpdate(a.env, ParamName(params[idx]), a.res),
                           k, rc)

\* the argument loop of CallExpression::eval from argument idx on
CallArguments(node, params, idx, scoped, kids, recs) ==
    IF idx > Len(node.arguments)
    THEN Args(scoped, kids, recs, FALSE)
    ELSE CallArgument(node, params, idx, scoped, kids, recs,
                      Eval(node.arguments[idx], scoped))

\* ReturnStatement::eval once the value has handed back r
ReturnEval(r) == Out(r.res, r.env, ~r.panic, r.panic, r.recs)

\* PrefixExpression::eval once the operand has handed back r
PrefixEval(node, env, r) ==
    LET k == <<Kid(node.right, env, r, << >>)>>
    IN  \* right_eval.as_ref().unwrap()
        IF r.panic \/ ~is_some(r.res)
        THEN Finish(node, env, k, NoneObj, r.env, FALSE, TRUE, r.recs)
        ELSE IF is_error(r.res)
        THEN Finish(node, env, k, r.res, r.env, FALSE, FALSE, r.recs)
        ELSE Finish(node, env, k, PrefixApply(node.operator, r.res),
                    r.env, FALSE, FALSE, r.recs)

\* a slip: a zero divisor hands back an Error instead of panicking
InfixRight_DivZeroError(node, env, l, r) ==
    LET k == <<Kid(node.left, env, l, << >>), Kid(node.right, l.env, r, << >>)>>
        rc == l.recs \o r.recs
    IN  IF r.panic
        THEN Finish(node, env, k, NoneObj, r.env, FALSE, TRUE, rc)
        ELSE IF is_error(r.res)
        THEN Finish(node, env, k, r.res, r.env, FALSE, FALSE, rc)
        ELSE IF ~is_some(r.res)
        THEN Finish(node, env, k, NoneObj, r.env, FALSE, TRUE, rc)
        ELSE IF InfixPanics(node.operator, l.res, r.res)
        THEN Finish(node, env, k, ErrorObj("division by zero"), r.env, FALSE,
                    FALSE, rc)
        ELSE Finish(node, env, k, InfixApply(node.operator, l.res, r.res),
                    r.env, FALSE, FALSE, rc)

\* InfixExpression::eval once the right operand has handed back r
InfixRight(node, env, l, r) ==
    LET k == <<Kid(node.left, env, l, << >>), Kid(node.right, l.env, r, << >>)>>
        rc == l.recs \o r.recs
    IN  IF r.panic
        THEN Finish(node, env, k, NoneObj, r.env, FALSE, TRUE, rc)
        ELSE IF is_error(r.res)
        THEN Finish(node, env, k, r.res, r.env, FALSE, FALSE, rc)
        \* right_eval.unwrap(), division by zero
        ELSE IF ~is_some(r.res) \/ InfixPanics(node.operator, l.res, r.res)
        THEN Finish(node, env, k, NoneObj, r.env, FALSE, TRUE, rc)
        ELSE Finish(node, env, k, InfixApply(node.operator, l.res, r.res),
                    r.env, FALSE, FALSE, rc)

\* InfixExpression::eval once the left operand has handed back l
InfixLeft(node, env, l) ==
    LET kl == <<Kid(node.left, env, l, << >>)>>
    IN  IF l.panic
        THEN Finish(node, env, kl, NoneObj, l.env, FALSE, TRUE, l.recs)
        ELSE IF is_error(l.res)
        THEN Finish(node, env, kl, l.res, l.env, FALSE, FALSE, l.recs)
        \* left_eval.unwrap()
        ELSE IF ~is_some(l.res)
        THEN Finish(node, env, kl, NoneObj, l.env, FALSE, TRUE, l.recs)
        ELSE InfixRight(node, env, l, Eval(node.right, l.env))

\* IfExpression::eval once the chosen block has handed back b
IfBranch(node, env, c, block, b) ==
    Finish(node, env,
           <<Kid(node.condition, env, c, << >>), Kid(block, c.env, b, << >>)>>,
           b.res, b.env, b.ret, b.panic, c.recs \o b.recs)

\* IfExpression::eval once the condition has handed back c
IfCondition(node, env, c) ==
    LET kc == <<Kid(node.condition, env, c, << >>)>>
    IN  IF c.panic
        THEN Finish(node, env, kc, NoneObj, c.env, FALSE, TRUE, c.recs)
        ELSE IF is_error(c.res)
        THEN Finish(node, env, kc, c.res, c.env, FALSE, FALSE, c.recs)
        ELSE IF UseFirst(c.res)
        THEN IfBranch(node, env, c, node.consequence,
                      Eval(node.consequence, c.env))
        ELSE IF node.alternative # NoNode
        THEN IfBranch(node, env, c, node.alternative,
                      Eval(node.alternative, c.env))
        ELSE Finish(node, env, kc, NoneObj, c.env, FALSE, FALSE, c.recs)

\* CallExpression::eval when an unwrap or an index panics
CallPanic(node, env, scoped, kids, recs) ==
    Finish(node, env, kids, NoneObj, CallerEnvAfterCall(env, scoped), FALSE,
           TRUE, recs)

\* CallExpression::eval once the body has handed back b
CallBody(node, env, kids, rc, fn, b) ==
    Finish(node, env, Append(kids, Kid(fn.res.body, fn.env, b, << >>)),
           IF b.panic THEN NoneObj ELSE b.res,
           CallerEnvAfterCall(env, b.env), FALSE, b.panic, rc \o b.recs)

\* CallExpression::eval once the second eval of the callee has handed back fn
CallFunction(node, env, scoped, a, fn) ==
    LET k2 == Append(a.kids, Kid(node.function, a.env, fn, << >>))
        rc == a.recs \o fn.recs
    IN  IF fn.panic \/ ~is_some(fn.res) \/ fn.res.type # "FUNCTION"
        THEN CallPanic(node, env, scoped, k2, rc)
        ELSE CallBody(node, env, k2, rc, fn, Eval(fn.res.body, fn.env))

\* CallExpression::eval once the argument loop has handed back a
CallBind(node, env, scoped, a) ==
    IF a.panic THEN CallPanic(node, env, scoped, a.kids, a.recs)
    ELSE CallFunction(node, env, scoped, a, Eval(node.function, a.env))

\* CallExpression::eval once the first eval of the callee has handed back og
CallCallee(node, env, scoped, og) ==
    LET k1 == <<Kid(node.function, scoped, og, << >>)>>
    IN  \* .unwrap() and downcast_ref::<Function>().unwrap()
        IF og.panic \/ ~is_some(og.res) \/ og.res.type # "FUNCTION"
        THEN CallPanic(node, env, scoped, k1, og.recs)
        ELSE CallBind(node, env, scoped,
                      CallArguments(node, og.res.parameters, 1, og.env, k1,
                                    og.recs))

\* <node>::eval(env)
Eval(node, env) ==
    CASE node.kind = "Identifier" ->
           Out(EnvGet(env, node.id), env, FALSE, FALSE, << >>)
      [] node.kind = "IntegerLiteral" ->
           Out(IntegerObj(node.int), env, FALSE, FALSE, << >>)
      [] node.kind = "Boolean" ->
           Out(BooleanObj(node.bool), env, FALSE, FALSE, << >>)
      [] node.kind = "Let" ->
           Out(NoneObj, env, FALSE, FALSE, << >>)
      [] node.kind = "Return" ->
           ReturnEval(Eval(node.value, env))
      [] node.kind = "ExpressionStatement" ->
           Eval(node.expression, env)
      [] node.kind = "Block" ->
           BlockLoop(node, env, 1, env, Out(NoneObj, env, FALSE, FALSE, << >>),
                     << >>, << >>)
      [] node.kind = "Prefix" ->
           PrefixEval(node, env, Eval(node.right, env))
      [] node.kind = "Infix" ->
           InfixLeft(node, env, Eval(node.left, env))
      [] node.kind = "If" ->
           IfCondition(node, env, Eval(node.condition, env))
      [] node.kind = "FunctionLiteral" ->
           Out(FunctionObj(node.parameters, node.body, EnvGetCopy(env)),
               env, FALSE, FALSE, << >>)
      [] node.kind = "Call" ->
           CallCallee(node, env, EnvGetCopy(env),
                      Eval(node.function, EnvGetCopy(env)))

-----------------------------------------------------------------------------
(* Tokens and the lexer: src/src/token.rs, src/src/lexer.rs *)

\* Option<T>: None, Some(x)
None == << >>

Some(x) == <<x>>

\* Token::new(token_type, literal)
Token(token_type, literal) == [token_type |-> token_type, literal |-> literal]

\* input[i], i counted from 0
CharAt(input, i) == SubSeq(input, i + 1, i + 1)

\* char::is_whitespace, char::is_alphabetic, char::is_numeric on the
\* characters the inputs are written with
IsWhitespace(c) == c \in {" ", "\t", "\n"}

IsAlphabetic(c) ==
    c \in {"a", "b", "c", "d", "e", "f", "g", "h", "i", "j", "k", "l", "m",
           "n", "o", "p", "q", "r", "s", "t", "u", "v", "w", "x", "y", "z"}

IsNumeric(c) == c \in {"0", "1", "2", "3", "4", "5", "6", "7", "8", "9"}

\* Lexer::new(input)
LexerNew(input) ==
    [input |-> input, position |-> 0, read_position |-> 0, ch |-> Some(" ")]

\* Lexer::read_char
ReadChar(l) ==
    [l EXCEPT !.ch = IF l.read_position >= Len(l.input) THEN None
                     ELSE Some(CharAt(l.input, l.read_position)),
              !.position = l.read_position,
              !.read_position = l.read_position + 1]

\* Lexer::peek_char
PeekChar(l) ==
    IF l.read_position >= Len(l.input) THEN None
    ELSE Some(CharAt(l.input, l.read_position))

\* what match_char and the span matchers hand back: the lexer as they left
\* it, the Option<Token>, and whether an unwrap panicked
Matched(l, token, panic) == [lexer |-> l, token |-> token, panic |-> panic]

\* a slip: `=` and `!` never look at the next character
TwoCharOperator_Never(l, c) == FALSE

\* match_char: the `peeked.unwrap() == '='` test of the `=` and `!` arms
TwoCharOperator(l, c) == PeekChar(l) = Some("=")

\* the single-character arms of match_char
SingleCharTokens ==
    [type |-> <<"PLUS", "SLASH", "ASTERISK", "MINUS", "GT", "LT", "LPAREN",
                "RPAREN", "LBRACE", "RBRACE", "COMMA", "SEMICOLON">>,
     char |-> <<"+", "/", "*", "-", ">", "<", "(", ")", "{", "}", ",", ";">>]

\* Lexer::match_char, self.ch = Some(c)
MatchChar(l, c) ==
    CASE c = "=" ->
           IF TwoCharOperator(l, c)
           THEN Matched(ReadChar(l), Some(Token("EQ", Some("=="))), FALSE)
           ELSE Matched(l, Some(Token("ASSIGN", Some("="))), FALSE)
      [] c = "!" ->
           IF TwoCharOperator(l, c)
           THEN Matched(ReadChar(l), Some(Token("NEQ", Some("!="))), FALSE)
           ELSE Matched(l, Some(Token("BANG", Some("!"))), FALSE)
      [] \E i \in 1..12 : SingleCharTokens.char[i] = c ->
           LET i == CHOOSE j \in 1..12 : SingleCharTokens.char[j] = c
           IN  Matched(l, Some(Token(SingleCharTokens.type[i], Some(c))), FALSE)
      [] OTHER -> Matched(l, None, FALSE)

\* the `while self.ch.unwrap().is_alphabetic() & !...is_whitespace()` loop
RECURSIVE AlphabeticLoop(_, _)
AlphabeticLoop(l, ident) ==
    IF l.ch = None THEN [lexer |-> l, text |-> ident, panic |-> TRUE]
    ELSE IF IsAlphabetic(l.ch[1]) /\ ~IsWhitespace(l.ch[1])
    THEN AlphabeticLoop(ReadChar(l), ident \o l.ch[1])
    ELSE [lexer |-> l, text |-> ident, panic |-> FALSE]

\* the keyword match of match_alphabetic_span
Keywords ==
    [word |-> <<"let", "fn", "if", "else", "return", "true", "false">>,
     type |-> <<"LET", "FUNCTION", "IF", "ELSE", "RETURN", "TRUE", "FALSE">>]

WordToken(word) ==
    IF \E i \in 1..7 : Keywords.word[i] = word
    THEN Token(Keywords.type[CHOOSE i \in 1..7 : Keywords.word[i] = word],
               Some(word))
    ELSE Token("IDENT", Some(word))

\* `self.read_position -= 1; self.position -= 1;` at the end of a span
SpanBackUp(l) ==
    [l EXCEPT !.read_position = l.read_position - 1,
              !.position = l.position - 1]

\* match_alphabetic_span once the loop has handed back s
AlphabeticSpanEnd(s) ==
    IF s.panic THEN Matched(s.lexer, None, TRUE)
    ELSE IF Len(s.text) = 0 THEN Matched(s.lexer, None, FALSE)
    ELSE Matched(SpanBackUp(s.lexer), Some(WordToken(s.text)), FALSE)

\* Lexer::match_alphabetic_span
MatchAlphabeticSpan(l) ==
    IF l.ch = None THEN Matched(l, None, FALSE)
    ELSE AlphabeticSpanEnd(AlphabeticLoop(l, ""))

\* the `while self.ch.unwrap().is_numeric()` loop
RECURSIVE NumericLoop(_, _)
NumericLoop(l, numeric) ==
    IF l.ch = None THEN [lexer |-> l, text |-> numeric, panic |-> TRUE]
    ELSE IF IsNumeric(l.ch[1])
    THEN NumericLoop(ReadChar(l), numeric \o l.ch[1])
    ELSE [lexer |-> l, text |-> numeric, panic |-> FALSE]

\* match_numeric_span once the loop has handed back s
NumericSpanEnd(s) ==
    IF s.panic THEN Matched(s.lexer, None, TRUE)
    ELSE IF Len(s.text) = 0 THEN Matched(s.lexer, None, FALSE)
    ELSE Matched(SpanBackUp(s.lexer), Some(Token("INT", Some(s.text))), FALSE)

\* Lexer::match_numeric_span
MatchNumericSpan(l) ==
    IF l.ch = None THEN Matched(l, None, FALSE)
    ELSE NumericSpanEnd(NumericLoop(l, ""))

\* what next_token hands back: the lexer as it left it and the Token, or a
\* panic
Lexed(l, token, panic) == [lexer |-> l, token |-> token, panic |-> panic]

\* no token: the call panicked
NoToken == Token("NONE", None)

\* next_token once match_numeric_span has handed back m
AfterNumeric(m) ==
    IF m.panic THEN Lexed(m.lexer, NoToken, TRUE)
    ELSE IF m.token # None THEN Lexed(m.lexer, m.token[1], FALSE)
    ELSE Lexed(m.lexer, Token("ILLEGAL", None), FALSE)

\* next_token once match_alphabetic_span has handed back m
AfterAlphabetic(m) ==
    IF m.panic THEN Lexed(m.lexer, NoToken, TRUE)
    ELSE IF m.token # None THEN Lexed(m.lexer, m.token[1], FALSE)
    ELSE AfterNumeric(MatchNumericSpan(m.lexer))

\* next_token once match_char has handed back m
AfterChar(m) ==
    IF m.token # None THEN Lexed(m.lexer, m.token[1], FALSE)
    ELSE AfterAlphabetic(MatchAlphabeticSpan(m.lexer))

\* Lexer::next_token once read_char has moved the lexer to l
RECURSIVE AfterReadChar(_)
AfterReadChar(l) ==
    IF l.ch = None THEN Lexed(l, Token("EOF", None), FALSE)
    ELSE IF IsWhitespace(l.ch[1]) THEN AfterReadChar(ReadChar(l))
    ELSE AfterChar(MatchChar(l, l.ch[1]))

\* Lexer::next_token
LexerNextToken(l) == AfterReadChar(ReadChar(l))

-----------------------------------------------------------------------------
(* The parser: src/src/ast.rs *)

\* enum PrecedenceType
LOWEST == 0

EQUALS == 1

LESSGREATER == 2

SUM == 3

PRODUCT == 4

PREFIX == 5

CALL == 6

\* a slip: every operator of the table sits on one level
PrecedenceMap_Flat(token_type) ==
    IF token_type \in {"EQ", "NEQ", "LT", "GT", "PLUS", "MINUS", "SLASH",
                       "ASTERISK"}
    THEN SUM
    ELSE IF token_type = "LPAREN" THEN CALL ELSE LOWEST

\* PRECEDENCE_MAP, and LOWEST for a token type that is not a key
\* (peek_precedence)
PrecedenceMap(token_type) ==
    CASE token_type \in {"EQ", "NEQ"} -> EQUALS
      [] token_type \in {"LT", "GT"} -> LESSGREATER
      [] token_type \in {"PLUS", "MINUS"} -> SUM
      [] token_type \in {"SLASH", "ASTERISK"} -> PRODUCT
      [] token_type = "LPAREN" -> CALL
      [] OTHER -> LOWEST

\* the Parser struct; `panic` tells that a panic!() or an unwrap ended the
\* parse
Parser(l, current_token, peek_token, errors, panic) ==
    [lexer |-> l, current_token |-> current_token, peek_token |-> peek_token,
     errors |-> errors, panic |-> panic]

\* a panic!(), or an unwrap of None
Panic(p) == [p EXCEPT !.panic = TRUE]

\* Parser::new once both tokens were read
ParserNewEnd(a, b) ==
    Parser(b.lexer, a.token, b.token, << >>, a.panic \/ b.panic)

\* Parser::new once the first token was read
ParserNewPeek(a) ==
    IF a.panic THEN Parser(a.lexer, NoToken, NoToken, << >>, TRUE)
    ELSE ParserNewEnd(a, LexerNextToken(a.lexer))

\* Parser::new(lexer)
ParserNew(l) == ParserNewPeek(LexerNextToken(l))

\* Parser::next_token once the lexer has handed back o
Advance(p, o) ==
    IF o.panic THEN Panic([p EXCEPT !.lexer = o.lexer])
    ELSE [p EXCEPT !.current_token = p.peek_token, !.peek_token = o.token,
                   !.lexer = o.lexer]

\* Parser::next_token
ParserNextToken(p) == IF p.panic THEN p ELSE Advance(p, LexerNextToken(p.lexer))

CurrentTokenIs(p, token_type) == p.current_token.token_type = token_type

PeekTokenIs(p, token_type) == p.peek_token.token_type = token_type

\* the message expect_peek pushes: format!("Expected next token to be {:?},
\* got {:?} instead", &self.peek_token.token_type, token_type)
ExpectMessage(p, token_type) ==
    "Expected next token to be " \o p.peek_token.token_type \o ", got "
        \o token_type \o " instead"

\* `if !self.expect_peek(t) { panic!(..) }`: every call of expect_peek in
\* the parser is followed by a panic when it returns false
ExpectPeek(p, token_type) ==
    IF p.panic THEN p
    ELSE IF PeekTokenIs(p, token_type) THEN ParserNextToken(p)
    ELSE Panic([p EXCEPT !.errors = Append(p.errors, ExpectMessage(p, token_type))])

\* Parser::peek_precedence
PeekPrecedence(p) == PrecedenceMap(p.peek_token.token_type)

\* what a parse function hands back: the parser as it left it and the node
PNode(p, node) == [p |-> p, node |-> node]

\* the same for a function that returns a Vec of nodes
PList(p, nodes) == [p |-> p, nodes |-> nodes]

\* str::parse::<i64> of a run of digits; the literals of the model have at
\* most two digits, so the Err of an overflowing literal does not arise
RECURSIVE ParseI64(_, _)
ParseI64(text, acc) ==
    IF Len(text) = 0 THEN acc
    ELSE ParseI64(Tail(text),
                  acc * 10 + (CHOOSE i \in 1..10 : Digits[i] = Head(text)) - 1)

\* Parser::parse_integer_expression
ParseIntegerExpression(p) ==
    PNode(p, IntegerLiteralExpression(ParseI64(p.current_token.literal[1], 0)))

\* Parser::parse_identifier_expression
ParseIdentifierExpression(p) ==
    PNode(p, IdentifierExpression(p.current_token.literal[1]))

\* Parser::parse_boolean_expression
ParseBooleanExpression(p) ==
    PNode(p, BooleanExpression(p.current_token.literal[1] = "true"))

\* a slip: the right operand is parsed one level lower
RightPrecedence_Lower(precedence) == precedence - 1

\* parse_infix_expression parses its right operand at the operator's own
\* precedence
RightPrecedence(precedence) == precedence

\* the test of the `while` of parse_expression
InfixLoopContinues(p, precedence) ==
    ~PeekTokenIs(p, "SEMICOLON") /\ precedence < PeekPrecedence(p)

RECURSIVE ParseExpression(_, _)
RECURSIVE ParseStatement(_)

\* parse_prefix_expression once the operand was parsed
PrefixExpressionEnd(og_token, r) ==
    PNode(r.p, PrefixExpression(og_token.literal[1], r.node))

\* Parser::parse_prefix_expression
ParsePrefixExpression(p) ==
    PrefixExpressionEnd(p.current_token,
                        ParseExpression(ParserNextToken(p), PREFIX))

\* parse_infix_expression once the right operand was parsed
InfixExpressionEnd(left, og_token, r) ==
    PNode(r.p, InfixExpression(left, og_token.literal[1], r.node))

\* Parser::parse_infix_expression
ParseInfixExpression(p, left) ==
    InfixExpressionEnd(left, p.current_token,
        ParseExpression(ParserNextToken(p),
            RightPrecedence(PrecedenceMap(p.current_token.token_type))))

\* parse_grouped_expression once the inner expression was parsed
GroupedExpressionEnd(r) == PNode(ExpectPeek(r.p, "RPAREN"), r.node)

\* Parser::parse_grouped_expression
ParseGroupedExpression(p) ==
    GroupedExpressionEnd(ParseExpression(ParserNextToken(p), LOWEST))

\* the loop of parse_block_statement: one statement was parsed
RECURSIVE BlockStatements(_, _)
BlockPush(statements, r) ==
    BlockStatements(ParserNextToken(r.p), Append(statements, r.node))

\* the loop of parse_block_statement
BlockStatements(p, statements) ==
    IF p.panic THEN PNode(p, NoNode)
    ELSE IF CurrentTokenIs(p, "RBRACE") \/ CurrentTokenIs(p, "EOF")
    THEN PNode(p, BlockStatement(statements))
    ELSE IF CurrentTokenIs(p, "SEMICOLON")
    THEN BlockStatements(ParserNextToken(p), statements)
    ELSE BlockPush(statements, ParseStatement(p))

\* Parser::parse_block_statement
ParseBlockStatement(p) ==
    IF p.panic THEN PNode(p, NoNode)
    ELSE BlockStatements(ParserNextToken(p), << >>)

\* parse_if_expression once the alternative was parsed
IfAlternative(condition, consequence, a) ==
    PNode(a.p, IfExpression(condition, consequence, a.node))

\* parse_if_expression once the consequence was parsed
IfConsequence(condition, b) ==
    IF ~b.p.panic /\ PeekTokenIs(b.p, "ELSE")
    THEN IfAlternative(condition, b.node,
             ParseBlockStatement(ExpectPeek(ParserNextToken(b.p), "LBRACE")))
    ELSE PNode(b.p, IfExpression(condition, b.node, NoNode))

\* parse_if_expression once the condition was parsed
IfConditionParsed(c) ==
    IfConsequence(c.node,
        ParseBlockStatement(ExpectPeek(ExpectPeek(c.p, "RPAREN"), "LBRACE")))

\* Parser::parse_if_expression
ParseIfExpression(p) ==
    IfConditionParsed(
        ParseExpression(ParserNextToken(ExpectPeek(p, "LPAREN")), LOWEST))

\* the parameter the parser stands on:
\* `self.current_token.literal.clone().unwrap()`
ParameterHere(p) ==
    IF p.panic THEN PNode(p, NoNode)
    ELSE IF p.current_token.literal = None THEN PNode(Panic(p), NoNode)
    ELSE PNode(p, IdentifierExpression(p.current_token.literal[1]))

\* the `while self.peek_token_is(&TokenType::COMMA)` loop of
\* parse_function_parameters, the parameter r just read
RECURSIVE ParametersLoop(_, _)
ParametersLoop(r, identifiers) ==
    IF r.p.panic THEN PList(r.p, identifiers)
    ELSE IF PeekTokenIs(r.p, "COMMA")
    THEN ParametersLoop(ParameterHere(ParserNextToken(ParserNextToken(r.p))),
                        Append(identifiers, r.node))
    ELSE PList(ExpectPeek(r.p, "RPAREN"), Append(identifiers, r.node))

\* Parser::parse_function_parameters
ParseFunctionParameters(p) ==
    IF p.panic THEN PList(p, << >>)
    ELSE IF PeekTokenIs(p, "RPAREN") THEN PList(ParserNextToken(p), << >>)
    ELSE ParametersLoop(ParameterHere(ParserNextToken(p)), << >>)

\* parse_function_expression once the body was parsed
FunctionExpressionEnd(params, b) ==
    PNode(b.p, FunctionLiteralExpression(params, b.node))

\* parse_function_expression once the parameters were parsed
FunctionParametersParsed(ps) ==
    FunctionExpressionEnd(ps.nodes,
                          ParseBlockStatement(ExpectPeek(ps.p, "LBRACE")))

\* Parser::parse_function_expression
ParseFunctionExpression(p) ==
    FunctionParametersParsed(ParseFunctionParameters(ExpectPeek(p, "LPAREN")))

\* the `while self.peek_token_is(&TokenType::COMMA)` loop of
\* parse_call_arguments, the argument r just parsed
RECURSIVE ArgumentsLoop(_, _)
ArgumentsLoop(r, args) ==
    IF r.p.panic THEN PList(r.p, args)
    ELSE IF PeekTokenIs(r.p, "COMMA")
    THEN ArgumentsLoop(
             ParseExpression(ParserNextToken(ParserNextToken(r.p)), LOWEST),
             Append(args, r.node))
    ELSE PList(ExpectPeek(r.p, "RPAREN"), Append(args, r.node))

\* Parser::parse_call_arguments
ParseCallArguments(p) ==
    IF PeekTokenIs(p, "RPAREN") THEN PList(ParserNextToken(p), << >>)
    ELSE ArgumentsLoop(ParseExpression(ParserNextToken(p), LOWEST), << >>)

\* parse_call_expression once the arguments were parsed
CallExpressionEnd(func, as) == PNode(as.p, CallExpression(func, as.nodes))

\* Parser::parse_call_expression
ParseCallExpression(p, func) == CallExpressionEnd(func, ParseCallArguments(p))

\* parse_expression: the match on the current token that parses the left
\* side; panic!("LEFT EXPR IS NONE!") when no arm matches
ParseLeft(p) ==
    CASE CurrentTokenIs(p, "INT") -> ParseIntegerExpression(p)
      [] CurrentTokenIs(p, "BANG") -> ParsePrefixExpression(p)
      [] CurrentTokenIs(p, "MINUS") -> ParsePrefixExpression(p)
      [] CurrentTokenIs(p, "FUNCTION") -> ParseFunctionExpression(p)
      [] CurrentTokenIs(p, "IDENT") -> ParseIdentifierExpression(p)
      [] CurrentTokenIs(p, "TRUE") -> ParseBooleanExpression(p)
      [] CurrentTokenIs(p, "FALSE") -> ParseBooleanExpression(p)
      [] CurrentTokenIs(p, "LPAREN") -> ParseGroupedExpression(p)
      [] CurrentTokenIs(p, "IF") -> ParseIfExpression(p)
      [] OTHER -> PNode(Panic(p), NoNode)

\* parse_expression: the match inside the loop, after next_token;
\* panic!("PANICKING!") when no arm matches
ParseOperator(p, expr) ==
    IF p.panic THEN PNode(p, NoNode)
    ELSE CASE CurrentTokenIs(p, "IDENT") -> ParseIdentifierExpression(p)
           [] p.current_token.token_type \in
                  {"PLUS", "MINUS", "SLASH", "ASTERISK", "EQ", "NEQ", "GT", "LT"} ->
                ParseInfixExpression(p, expr)
           [] CurrentTokenIs(p, "LPAREN") -> ParseCallExpression(p, expr)
           [] OTHER -> PNode(Panic(p), NoNode)

\* the `while` loop of parse_expression, expr = r.node
RECURSIVE InfixLoop(_, _)
InfixLoop(r, precedence) ==
    IF r.p.panic THEN r
    ELSE IF InfixLoopContinues(r.p, precedence)
    THEN InfixLoop(ParseOperator(ParserNextToken(r.p), r.node), precedence)
    ELSE r

\* Parser::parse_expression
ParseExpression(p, precedence) ==
    IF p.panic THEN PNode(p, NoNode)
    ELSE InfixLoop(ParseLeft(p), precedence)

\* parse_let_statement once the value was parsed
LetStatementEnd(name, r) == PNode(r.p, LetStatement(name, r.node))

\* parse_let_statement once the name was read
LetStatementName(p) ==
    IF p.panic THEN PNode(p, NoNode)
    ELSE LetStatementEnd(p.current_token.literal[1],
             ParseExpression(ParserNextToken(ExpectPeek(p, "ASSIGN")), LOWEST))

\* Parser::parse_let_statement
ParseLetStatement(p) == LetStatementName(ExpectPeek(p, "IDENT"))

\* parse_return_statement once the value was parsed
ReturnStatementEnd(r) == PNode(r.p, ReturnStatement(r.node))

\* Parser::parse_return_statement
ParseReturnStatement(p) ==
    ReturnStatementEnd(ParseExpression(ParserNextToken(p), LOWEST))

\* parse_expression_statement once the expression was parsed: the token of
\* the statement is the token the parser stands on now
ExpressionStatementEnd(r) ==
    IF r.p.panic THEN PNode(r.p, NoNode)
    ELSE PNode(r.p, [kind |-> "ExpressionStatement",
                     token |-> r.p.current_token.literal[1],
                     expression |-> r.node])

\* Parser::parse_expression_statement
ParseExpressionStatement(p) ==
    ExpressionStatementEnd(ParseExpression(p, LOWEST))

\* Parser::parse_statement; panic!("PANIC!") when no arm matches
ParseStatement(p) ==
    CASE CurrentTokenIs(p, "LET") -> ParseLetStatement(p)
      [] CurrentTokenIs(p, "RETURN") -> ParseReturnStatement(p)
      [] p.current_token.token_type \in
             {"INT", "BANG", "MINUS", "IDENT", "TRUE", "FALSE", "LPAREN",
              "IF", "FUNCTION"} ->
           ParseExpressionStatement(p)
      [] OTHER -> PNode(Panic(p), NoNode)

\* what parse() leaves: the Program's statements, the parser's errors, and
\* whether it panicked instead of returning
ParseResult(statements, errors, panic) ==
    [done |-> TRUE, statements |-> statements, errors |-> errors,
     panic |-> panic]

\* parse() was not called yet
NotParsed ==
    [done |-> FALSE, statements |-> << >>, errors |-> << >>, panic |-> FALSE]

\* the loop of Parser::parse
RECURSIVE ParseLoop(_, _)
ParsePush(statements, r) ==
    ParseLoop(ParserNextToken(r.p), Append(statements, r.node))

ParseLoop(p, statements) ==
    IF p.panic THEN ParseResult(<< >>, p.errors, TRUE)
    ELSE IF CurrentTokenIs(p, "EOF") THEN ParseResult(statements, p.errors, FALSE)
    ELSE IF CurrentTokenIs(p, "SEMICOLON")
    THEN ParseLoop(ParserNextToken(p), statements)
    ELSE ParsePush(statements, ParseStatement(p))

\* Parser::new(Lexer::new(source)).parse()
Parse(source) == ParseLoop(ParserNew(LexerNew(source)), << >>)

(* to_string of the nodes *)

\* Vec<String>::join(sep)
RECURSIVE Join(_, _)
Join(strs, sep) ==
    IF strs = << >> THEN ""
    ELSE IF Len(strs) = 1 THEN strs[1]
    ELSE strs[1] \o sep \o Join(Tail(strs), sep)

\* <node>::to_string()
RECURSIVE NodeToString(_)
NodeToString(n) ==
    CASE n.kind = "Let" ->
           n.token \o " " \o n.name \o " = " \o NodeToString(n.value)
      [] n.kind = "Return" -> n.token \o " " \o NodeToString(n.value) \o ";"
      [] n.kind = "ExpressionStatement" -> NodeToString(n.expression)
      [] n.kind = "Block" ->
           Join([i \in 1..Len(n.statements) |->
                     NodeToString(n.statements[i]) \o ";"], " ")
      [] n.kind = "Identifier" -> n.id
      [] n.kind = "IntegerLiteral" -> IntToStr(n.int)
      [] n.kind = "Boolean" -> IF n.bool THEN "true" ELSE "false"
      [] n.kind = "Prefix" -> "(" \o n.operator \o NodeToString(n.right) \o ")"
      [] n.kind = "Infix" ->
           "(" \o NodeToString(n.left) \o " " \o n.operator \o " "
               \o NodeToString(n.right) \o ")"
      [] n.kind = "If" ->
           IF n.alternative # NoNode
           THEN "if " \o NodeToString(n.condition) \o " "
                    \o NodeToString(n.consequence) \o " else "
                    \o NodeToString(n.alternative)
           ELSE "if " \o NodeToString(n.condition) \o " "
                    \o NodeToString(n.consequence)
      [] n.kind = "FunctionLiteral" ->
           "fn(" \o Join([i \in 1..Len(n.parameters) |->
                              NodeToString(n.parameters[i])], ", ")
                 \o ") { " \o NodeToString(n.body) \o " }"
      [] n.kind = "Call" ->
           NodeToString(n.function) \o "("
               \o Join([i \in 1..Len(n.arguments) |->
                            NodeToString(n.arguments[i])], ", ")
               \o ")"

\* Program::to_string()
ProgramToString(statements) ==
    Join([i \in 1..Len(statements) |-> NodeToString(statements[i])], " ")

-----------------------------------------------------------------------------
(* The session: Program of src/src/program.rs *)

VARIABLES
    statements,       \* Program.statements
    environment,      \* Program.environment (its store)
    current_idx,      \* Program.current_idx (0-based)
    panicked,         \* the host thread panicked inside eval
    lastOp,           \* "new", "extend" or "eval": the last call made
    result,           \* what the last call returned, if it was eval
    recs,             \* the observation log of the last call, if it was eval
    evaluated,        \* indices (0-based) evaluated by eval calls so far
    evaluatedBefore,  \* those evaluated before the last call, if it was eval
    lexer,            \* a Lexer: input, position, read_position, ch
    emitted,          \* what the calls of next_token returned, in order
    source,           \* the text handed to Lexer::new for the parser
    parsed,           \* what Parser::parse made of `source`
    reparsed          \* what Parser::parse made of the printed program

\* the lexer and what it emitted
lexerVars == <<lexer, emitted>>

\* the parser's input and output
parserVars == <<source, parsed, reparsed>>

frontVars == <<lexer, emitted, source, parsed, reparsed>>

\* no lexer was made
LexerIdle ==
    /\ lexer = LexerNew("")
    /\ emitted = << >>

\* no parser was made
ParserIdle ==
    /\ source = ""
    /\ parsed = NotParsed
    /\ reparsed = NotParsed

\* the session
sessionVars == <<statements, environment, current_idx, result, recs,
                 evaluated, evaluatedBefore>>

vars == <<statements, environment, current_idx, panicked, lastOp, result,
          recs, evaluated, evaluatedBefore, lexer, emitted, source, parsed,
          reparsed>>

\* the node the log uses for the top-level loop: it evaluates
\* statements[from + 1 ..]
ProgramNode(stmts, from) == [kind |-> "Program", statements |-> stmts, from |-> from]

\* a slip: the index is put back to where the eval call started
Done_Rewound(node, envIn, kids, res, env, idx, panic, rcs) ==
    [res |-> res, env |-> env, idx |-> node.from, panic |-> panic,
     recs |-> Append(rcs, Rec(node, envIn, kids, res, env, panic))]

\* what Program::eval hands back: the result, the environment, current_idx,
\* panic, and the log with the record of the top-level loop
Done(node, envIn, kids, res, env, idx, panic, rcs) ==
    [res |-> res, env |-> env, idx |-> idx, panic |-> panic,
     recs |-> Append(rcs, Rec(node, envIn, kids, res, env, panic))]

RECURSIVE ProgramLoop(_, _, _, _, _, _, _)

\* Program::eval, statement idx: its update_env has handed back u
ProgramUpdate(node, envIn, idx, env, kids, rc, r, u) ==
    LET ku == Append(kids, Kid(node.statements[idx + 1], env, r, u.upd))
    IN  IF u.panic
        THEN Done(node, envIn, ku, NoneObj, u.env, idx, TRUE, rc \o u.recs)
        ELSE ProgramLoop(node, envIn, idx + 1, ApplyUpdates(u.env, u.upd), r,
                         ku, rc \o u.recs)

\* Program::eval, statement idx: its eval has handed back r
ProgramStep(node, envIn, idx, env, kids, rcs, r) ==
    LET s == node.statements[idx + 1]
        k == Append(kids, Kid(s, env, r, << >>))
        rc == rcs \o r.recs
    IN  IF r.panic
        THEN Done(node, envIn, k, NoneObj, r.env, idx, TRUE, rc)
        ELSE IF TopLevelIsReturn(s)
        THEN Done(node, envIn, k, r.res, r.env, idx, FALSE, rc)
        ELSE IF is_error(r.res)
        THEN Done(node, envIn, k, r.res, r.env, idx, FALSE, rc)
        ELSE ProgramUpdate(node, envIn, idx, env, kids, rc, r,
                           UpdateEnv(s, r.env))

\* the loop of Program::eval from statement idx (0-based) on
ProgramLoop(node, envIn, idx, env, last, kids, rcs) ==
    IF idx >= Len(node.statements)
    THEN Done(node, envIn, kids, last.res, env, idx, FALSE, rcs)
    ELSE ProgramStep(node, envIn, idx, env, kids, rcs,
                     Eval(node.statements[idx + 1], env))

\* indices (0-based) of the top-level statements a top-level record covers
RunOf(rec) == {rec.node.from + j - 1 : j \in 1..Len(rec.kids)}

\* the record the last eval call logged for the top-level loop
ProgramRec == recs[Len(recs)]

\* indices (0-based) of the top-level statements the last eval call evaluated
LastRun == RunOf(ProgramRec)

(* The statements a session is fed with *)

Id(n) == IdentifierExpression(n)

Lit(n) == IntegerLiteralExpression(n)

\* let x = 1      let x = 2
LetXInt(n) == LetStatement("x", Lit(n))

\* let x = y      (y is never bound)
LetXY == LetStatement("x", Id("y"))

\* let f = fn() { x }
LetFClosure ==
    LetStatement("f",
        FunctionLiteralExpression(<< >>, BlockStatement(<<ExpressionStatement(Id("x"))>>)))

\* if (true) { return y; }
IfReturnY ==
    IfExpression(BooleanExpression(TRUE),
                 BlockStatement(<<ReturnStatement(Id("y"))>>), NoNode)

\* let f = fn(x, y) { if (true) { return y; } let z = x; z }
LetFTwo ==
    LetStatement("f",
        FunctionLiteralExpression(<<Id("x"), Id("y")>>,
            BlockStatement(<<ExpressionStatement(IfReturnY),
                             LetStatement("z", Id("x")),
                             ExpressionStatement(Id("z"))>>)))

\* f()
CallF0 == ExpressionStatement(CallExpression(Id("f"), << >>))

\* f(5, x)
CallF2 == ExpressionStatement(CallExpression(Id("f"), <<Lit(5), Id("x")>>))

\* return x
ReturnX == ReturnStatement(Id("x"))

\* if (true) { let z = 3; return x }
IfLetReturn ==
    ExpressionStatement(
        IfExpression(BooleanExpression(TRUE),
                     BlockStatement(<<LetStatement("z", Lit(3)),
                                      ReturnStatement(Id("x"))>>), NoNode))

Inputs ==
    {LetXInt(1), LetXInt(2), LetXY, LetFClosure, LetFTwo, CallF0, CallF2,
     ReturnX, IfLetReturn}

\* what one call of extend may append: nothing, or one parsed statement
Chunks == {<< >>} \cup {<<s>> : s \in Inputs}

\* Program::new(vec![])
Init ==
    /\ statements = << >>
    /\ environment = EnvNew
    /\ current_idx = 0
    /\ panicked = FALSE
    /\ lastOp = "new"
    /\ result = NoneObj
    /\ recs = << >>
    /\ evaluated = {}
    /\ evaluatedBefore = {}
    /\ LexerIdle
    /\ ParserIdle

\* Program::extend(chunk)
Extend(chunk) ==
    /\ ~panicked
    /\ Len(statements) + Len(chunk) <= MaxStatements
    /\ statements' = statements \o chunk
    /\ lastOp' = "extend"
    /\ result' = NoneObj
    /\ recs' = << >>
    /\ evaluatedBefore' = {}
    /\ UNCHANGED <<environment, current_idx, panicked, evaluated>>
    /\ UNCHANGED frontVars

\* Program::eval()
ProgramEval ==
    /\ ~panicked
    /\ IF current_idx > Len(statements)
       THEN /\ result' = NoneObj
            /\ recs' = <<Rec(ProgramNode(statements, current_idx), environment,
                             << >>, NoneObj, environment, FALSE)>>
            /\ UNCHANGED <<environment, current_idx, panicked>>
       ELSE LET o == ProgramLoop(ProgramNode(statements, current_idx),
                                 environment, current_idx, environment,
                                 Out(NoneObj, environment, FALSE, FALSE, << >>),
                                 << >>, << >>)
            IN  /\ result' = o.res
                /\ recs' = o.recs
                /\ environment' = o.env
                /\ current_idx' = o.idx
                /\ panicked' = o.panic
    /\ evaluated' = evaluated \cup RunOf(recs'[Len(recs')])
    /\ evaluatedBefore' = evaluated
    /\ lastOp' = "eval"
    /\ UNCHANGED statements
    /\ UNCHANGED frontVars

Next ==
    \/ \E chunk \in Chunks : Extend(chunk)
    \/ ProgramEval

Spec == Init /\ [][Next]_vars

-----------------------------------------------------------------------------
(* Expression sessions: a session that bound the name `a` (or not) and was  *)
(* then extended with one expression statement, drawn from a grammar of     *)
(* prefix, infix and if expressions; `u` is never bound.                    *)

\* how many let statements the session evaluated before the expression
MaxPrelude == 1

\* let a = 7      let a = true      let a = u
PreludeLets ==
    {LetStatement("a", Lit(7)),
     LetStatement("a", BooleanExpression(TRUE)),
     LetStatement("a", Id("u"))}

Preludes == UNION {[1..n -> PreludeLets] : n \in 0..MaxPrelude}

InfixOps == {"+", "-", "*", "/", "<", ">", "==", "!="}

PrefixOps == {"!", "-"}

Atoms == {Lit(0), Lit(7), BooleanExpression(TRUE), Id("a"), Id("u")}

SimpleExprs ==
    Atoms
      \cup {PrefixExpression(op, x) : op \in PrefixOps, x \in Atoms}
      \cup {InfixExpression(x, op, y) : x \in Atoms, op \in InfixOps, y \in Atoms}

Block1(e) == BlockStatement(<<ExpressionStatement(e)>>)

CompoundExprs ==
    {PrefixExpression(op, e) : op \in PrefixOps, e \in SimpleExprs}
      \cup {InfixExpression(e, op, x) : e \in SimpleExprs, op \in {"+", "=="}, x \in Atoms}
      \cup {InfixExpression(x, op, e) : x \in Atoms, op \in {"+", "=="}, e \in SimpleExprs}
      \cup {IfExpression(e, Block1(x), alt) :
              e \in SimpleExprs, x \in {Lit(7), Id("u")},
              alt \in {NoNode, Block1(Lit(0))}}

\* operands of the divisions: 7, -7, 2, -2, 0
DivOperands ==
    {Lit(7), PrefixExpression("-", Lit(7)), Lit(2), PrefixExpression("-", Lit(2)),
     Lit(0)}

\* 7 / 2      -7 / 2      7 / -2      7 / 0  ..
DivExprs == {InfixExpression(x, "/", y) : x \in DivOperands, y \in DivOperands}

\* fn(p) { p }
FnOf(p) == FunctionLiteralExpression(<<Id(p)>>, Block1(Id(p)))

\* if (!true) { 7 }: yields no value
IfNoValue ==
    IfExpression(PrefixExpression("!", BooleanExpression(TRUE)), Block1(Lit(7)),
                 NoNode)

\* operands that are neither an Integer nor a Boolean nor an Error
OddOperands == {FnOf("x"), IfNoValue}

\* fn(x) { x }      -fn(x) { x }      !(if (!true) { 7 })      fn(x) { x } + 7
\* true == fn(x) { x }      if (if (!true) { 7 }) { 7 } else { 0 }  ..
OddExprs ==
    OddOperands
      \cup {PrefixExpression(op, e) : op \in PrefixOps, e \in OddOperands}
      \cup {InfixExpression(e, op, x) :
              e \in OddOperands, op \in {"+", "=="},
              x \in {Lit(7), BooleanExpression(TRUE)}}
      \cup {InfixExpression(x, op, e) :
              x \in {Lit(7), BooleanExpression(TRUE)}, op \in {"+", "=="},
              e \in OddOperands}
      \cup {IfExpression(e, Block1(Lit(7)), alt) :
              e \in OddOperands, alt \in {NoNode, Block1(Lit(0))}}

\* fn(a) { a }()      fn(u) { u }()      fn(x) { x }(7)      fn(x) { x }(7, 0)
\* fn(a) { a }(7)     fn() { a }(7)
CallExprs ==
    {CallExpression(FnOf(p), args) :
        p \in {"a", "u", "x"}, args \in {<< >>, <<Lit(7)>>, <<Lit(7), Lit(0)>>}}
      \cup {CallExpression(FunctionLiteralExpression(<< >>, Block1(Id("a"))), args) :
              args \in {<< >>, <<Lit(7)>>}}
      \* fn(x, a) { a }(0)      fn(x, u) { x }(0)  ..
      \cup {CallExpression(
                FunctionLiteralExpression(<<Id("x"), Id(p)>>, Block1(Id(q))),
                <<Lit(0)>>) :
              p \in {"a", "u"}, q \in {"x", "a", "u"}}

ExprInputs ==
    SimpleExprs \cup CompoundExprs \cup DivExprs \cup OddExprs \cup CallExprs

\* Program::new(prelude), eval(), extend([e]): the state those calls leave
InitExpr ==
    \E prelude \in Preludes, e \in ExprInputs :
        LET o == ProgramLoop(ProgramNode(prelude, 0), EnvNew, 0, EnvNew,
                             Out(NoneObj, EnvNew, FALSE, FALSE, << >>),
                             << >>, << >>)
        IN  /\ statements = prelude \o <<ExpressionStatement(e)>>
            /\ environment = o.env
            /\ current_idx = o.idx
            /\ panicked = o.panic
            /\ lastOp = "extend"
            /\ result = NoneObj
            /\ recs = << >>
            /\ evaluated = RunOf(o.recs[Len(o.recs)])
            /\ evaluatedBefore = {}
            /\ LexerIdle
            /\ ParserIdle

NextExpr == ProgramEval

SpecExpr == InitExpr /\ [][NextExpr]_vars

-----------------------------------------------------------------------------
(* Lexing sessions: Lexer::new(input), then next_token again and again *)

\* longest input built from the alphabet
MaxInput == 4

\* calls of next_token made after the input is used up
MaxExtraCalls == 2

\* characters the inputs are built from: the two-character operators' parts,
\* letters (`if` is a keyword, `f`, `i`, `fi`.. are identifiers), a digit,
\* whitespace, a delimiter, and a character no matcher accepts
Alphabet == {"=", "!", "i", "f", "5", " ", ";", "@"}

RECURSIVE Strings(_)
Strings(n) ==
    IF n = 0 THEN {""}
    ELSE Strings(n - 1)
           \cup {s \o c : s \in {t \in Strings(n - 1) : Len(t) = n - 1},
                          c \in Alphabet}

\* inputs of the tests of src/src/lexer.rs and of the language's examples
SampleInputs ==
    {"=+(){},;", "fn(x,y)", "let five = 5;", "5 == 10; 12 != 9;",
     "if (5 < 10) { return true; } else { return false; }", "a + b", "true",
     "x == y; x != y; x ="}

LexInputs == Strings(MaxInput) \cup SampleInputs

\* the session state is that of Program::new(vec![]) and stays so
SessionIdle ==
    /\ statements = << >>
    /\ environment = EnvNew
    /\ current_idx = 0
    /\ result = NoneObj
    /\ recs = << >>
    /\ evaluated = {}
    /\ evaluatedBefore = {}

\* Lexer::new(input)
InitLexer ==
    /\ SessionIdle
    /\ panicked = FALSE
    /\ lastOp = "new"
    /\ \E input \in LexInputs : lexer = LexerNew(input)
    /\ emitted = << >>
    /\ ParserIdle

\* one entry of `emitted`: the token, and where the call left the lexer
Emitted(o) ==
    [token |-> o.token, position |-> o.lexer.position,
     read_position |-> o.lexer.read_position]

\* lexer.next_token()
NextToken ==
    /\ ~panicked
    /\ Len(emitted) < Len(lexer.input) + 1 + MaxExtraCalls
    /\ LET o == LexerNextToken(lexer)
       IN  /\ lexer' = o.lexer
           /\ panicked' = o.panic
           /\ emitted' = IF o.panic THEN emitted ELSE Append(emitted, Emitted(o))
    /\ lastOp' = "next_token"
    /\ UNCHANGED sessionVars
    /\ UNCHANGED parserVars

NextLexer == NextToken

SpecLexer == InitLexer /\ [][NextLexer]_vars

-----------------------------------------------------------------------------
(* Parsing sessions: parse a source, print the program, parse the print *)

\* what ends a statement's text: `;`, or the newline read_line leaves
Terminators == {";", "\n"}

\* the operands a, b, c of the three-operand sources
OperandProfiles == {<<"a", "b", "c">>, <<"1", "2", "3">>}

\* `a op1 b op2 c`
TripleSource(x, op1, op2, term) ==
    x[1] \o " " \o op1 \o " " \o x[2] \o " " \o op2 \o " " \o x[3] \o term

TripleSources ==
    {TripleSource(x, op1, op2, term) :
        x \in OperandProfiles, op1 \in InfixOps, op2 \in InfixOps,
        term \in Terminators}

\* `a op1 (b op2 c)`
GroupedSource(x, op1, op2, term) ==
    x[1] \o " " \o op1 \o " (" \o x[2] \o " " \o op2 \o " " \o x[3] \o ")"
        \o term

GroupedSources ==
    {GroupedSource(x, op1, op2, term) :
        x \in OperandProfiles, op1 \in InfixOps, op2 \in InfixOps,
        term \in Terminators}

\* `-a op b`, `!a op b`
PrefixSource(pre, op, term) == pre \o "a " \o op \o " b" \o term

PrefixSources ==
    {PrefixSource(pre, op, term) :
        pre \in PrefixOps, op \in InfixOps, term \in Terminators}

\* `a op f(b)`, `-f(b)`
CallSource(op, term) == "a " \o op \o " f(b)" \o term

CallSources ==
    {CallSource(op, term) : op \in InfixOps, term \in Terminators}
        \cup {"-f(b);", "!f(b);"}

\* the inputs of the tests of src/src/ast.rs that are terminated
TestSources ==
    {"!-a;", "a + b * c + d / e - f;", "5 > 4 == 3 < 4;",
     "3 + 4 * 5 == 3 * 1 + 4 * 5;", "1 + (2 + 3) + 4;", "(5 + 5) * 2;",
     "-(5 + 5);", "!(true == true);"}

\* one source and more for every kind of node
KindSources ==
    {"let x = 5;", "let x = a + b;", "let x = 5; let y = x;", "return 10;",
     "return a + b;", "x;", "5;", "true;", "-a;", "if (x < y) { x };",
     "if (x) { y } else { z };", "if (x < y) { return x; } else { y; };",
     "fn(x, y) { x + y; };", "fn() { };", "let f = fn(x) { x; };",
     "f(a, b);", "f();", "add(1, 2 * 3);", "fn(x) { x; }(5);", ""}

WellFormedSources ==
    TripleSources \cup GroupedSources \cup PrefixSources \cup CallSources
        \cup TestSources \cup KindSources

\* sources with an expected-token mismatch
MismatchSources ==
    {"let = 5;", "let x 5;", "(a + b;", "if a { b };", "if (a { b };",
     "if (a) b;", "if (a) { b } else c;", "fn x) { x };", "fn(x { x };",
     "fn(x) x;", "f(a;", "f(a, b;"}

\* sources with a statement that starts with a token that starts none
BadStartSources ==
    {"};", "= 5;", "@;", ");", "a; }", "a; @", ", a;", "else;"}

\* sources whose let name or parameter list holds a token that is no
\* identifier
BinderSources ==
    {"let 5 = 1;", "let if = 1;", "fn(1, 2) { };", "fn(x, 5) { x };",
     "fn(if) { };", "let f = fn(1) { 1 };", "if (x) { fn(true) { } };"}

Sources ==
    WellFormedSources \cup MismatchSources \cup BadStartSources
        \cup BinderSources

\* a source was chosen
InitParser ==
    /\ SessionIdle
    /\ LexerIdle
    /\ panicked = FALSE
    /\ lastOp = "new"
    /\ source \in Sources
    /\ parsed = NotParsed
    /\ reparsed = NotParsed

\* Parser::new(Lexer::new(source)).parse()
ParseSource ==
    /\ ~parsed.done
    /\ parsed' = Parse(source)
    /\ panicked' = parsed'.panic
    /\ lastOp' = "parse"
    /\ UNCHANGED <<source, reparsed>>
    /\ UNCHANGED sessionVars
    /\ UNCHANGED lexerVars

\* Parser::new(Lexer::new(program.to_string())).parse()
ParsePrinted ==
    /\ parsed.done
    /\ ~panicked
    /\ ~reparsed.done
    /\ reparsed' = Parse(ProgramToString(parsed.statements))
    /\ panicked' = reparsed'.panic
    /\ lastOp' = "reparse"
    /\ UNCHANGED <<source, parsed>>
    /\ UNCHANGED sessionVars
    /\ UNCHANGED lexerVars

NextParser ==
    \/ ParseSource
    \/ ParsePrinted

SpecParser == InitParser /\ [][NextParser]_vars

-----------------------------------------------------------------------------
(* Reading the log *)

Recs == {recs[i] : i \in 1..Len(recs)}

RecsOf(kinds) == {r \in Recs : r.node.kind \in kinds}

\* the loops over statements: blocks and the top-level program
LoopRecs == RecsOf({"Block", "Program"})

CallRecs == RecsOf({"Call"})

\* kids of a Call record: callee, the arguments, callee again, body
BodyEvaluated(c) == Len(c.kids) = Len(c.node.arguments) + 3

ArgKids(c) ==
    {j \in 2..Len(c.kids) : j <= Len(c.node.arguments) + 1}

\* identifiers a node mentions
RECURSIVE IdentsOf(_)
IdentsOf(n) ==
    CASE n.kind = "Identifier" -> {n.id}
      [] n.kind \in {"IntegerLiteral", "Boolean", "NoNode"} -> {}
      [] n.kind = "Prefix" -> IdentsOf(n.right)
      [] n.kind = "Infix" -> IdentsOf(n.left) \cup IdentsOf(n.right)
      [] n.kind = "If" ->
           IdentsOf(n.condition) \cup IdentsOf(n.consequence)
             \cup IdentsOf(n.alternative)
      [] n.kind = "Block" ->
           UNION {IdentsOf(n.statements[i]) : i \in 1..Len(n.statements)}
      [] n.kind \in {"Let", "Return"} -> IdentsOf(n.value)
      [] n.kind = "ExpressionStatement" -> IdentsOf(n.expression)
      [] n.kind = "FunctionLiteral" ->
           IdentsOf(n.body) \ {ParamName(n.parameters[i]) : i \in 1..Len(n.parameters)}
      [] n.kind = "Call" ->
           IdentsOf(n.function)
             \cup UNION {IdentsOf(n.arguments[i]) : i \in 1..Len(n.arguments)}

\* names a block binds with `let`
LetNames(b) ==
    {b.statements[i].name : i \in {j \in 1..Len(b.statements) : b.statements[j].kind = "Let"}}

\* free identifiers of a function: mentioned in the body, neither a parameter
\* nor bound by a let of the body
FreeIdents(fn) ==
    (IdentsOf(fn.body) \ LetNames(fn.body))
       \ {ParamName(fn.parameters[i]) : i \in 1..Len(fn.parameters)}

\* the Function object a completed call ran: the callee as re-fetched
CalledFunction(c) == c.kids[Len(c.kids) - 1].res

BodyKid(c) == c.kids[Len(c.kids)]

-----------------------------------------------------------------------------
(* Claims *)

\* C1  Closure capture isolation: when a function value is called, each free
\* identifier of its body that was bound when the function literal was
\* evaluated resolves, in the environment the body runs in, to the value it
\* had then; a rebinding in the caller between creation and call is not seen.
\* (Names bound to an Error object, then or in the caller, are left aside:
\* such bindings are the subject of C4.)
C1_ClosureCaptureIsolation ==
    \A c \in CallRecs :
        BodyEvaluated(c) =>
            LET fn == CalledFunction(c)
            IN  \A n \in FreeIdents(fn) \cap DOMAIN fn.env :
                    (~is_error(fn.env[n]) /\ ~is_error(EnvGet(c.envIn, n)))
                        => EnvGet(BodyKid(c).envIn, n) = fn.env[n]

\* a kid that is an if-expression in statement position in which a `return`
\* statement ran
IfStatementReturned(k) ==
    /\ k.node.kind = "ExpressionStatement"
    /\ k.node.expression.kind = "If"
    /\ k.ret

\* C2  Return-unwind: when a `return` runs inside an if-block that is a
\* statement of a block or of the program, the enclosing block/program stops
\* there: that statement is the last one evaluated and the result of the
\* block/program is the returned value.
C2_ReturnUnwind ==
    \A r \in LoopRecs :
        \A i \in 1..Len(r.kids) :
            IfStatementReturned(r.kids[i]) =>
                /\ i = Len(r.kids)
                /\ r.res = r.kids[i].res

\* the top-level statement (0-based index) behind kid j of the last eval call
TopIndex(j) == ProgramRec.node.from + j - 1

\* C3  Top-level return: when Program.eval reaches a top-level `return`, the
\* call returns that statement's value at once: the return is the last
\* statement evaluated, the result is its value, no update is applied after
\* it (the environment is the one its evaluation left) and current_idx stays
\* on it.
C3_TopLevelReturn ==
    (lastOp = "eval" /\ ~panicked) =>
        \A j \in 1..Len(ProgramRec.kids) :
            ProgramRec.kids[j].node.kind = "Return" =>
                /\ j = Len(ProgramRec.kids)
                /\ result = ProgramRec.kids[j].res
                /\ ProgramRec.kids[j].upd = << >>
                /\ environment = ProgramRec.kids[j].envOut
                /\ current_idx = TopIndex(j)

\* a return in the middle of the program was reached with statements before
\* and after it, and its value came back
C3_Witness ==
    /\ lastOp = "eval"
    /\ ~panicked
    /\ Len(ProgramRec.kids) >= 2
    /\ ProgramRec.kids[Len(ProgramRec.kids)].node.kind = "Return"
    /\ current_idx + 1 < Len(statements)
    /\ result = IntegerObj(1)

\* the pairs a statement's update_env handed back
UpdsOf(k) == {k.upd[i] : i \in 1..Len(k.upd)}

\* C4  Halt on first error: in a block or the program, no statement binds a
\* name to an Error (a let whose right-hand side is an Error binds nothing),
\* and a statement that yields an Error is the last one evaluated and its
\* Error is the result.
C4_HaltOnFirstError ==
    \A r \in LoopRecs :
        \A i \in 1..Len(r.kids) :
            /\ \A u \in UpdsOf(r.kids[i]) : ~is_error(u.obj)
            /\ is_error(r.kids[i].res) =>
                  (i = Len(r.kids) /\ r.res = r.kids[i].res)

\* C6  Error absorption in calls: if the callee or an argument of a call
\* evaluates to an Error, the call returns that Error (it does not panic)
\* and the body is not evaluated.
C6_CallAbsorbsError ==
    \A c \in CallRecs :
        \A j \in 1..Len(c.kids) :
            (j <= Len(c.node.arguments) + 1 /\ is_error(c.kids[j].res)) =>
                /\ ~c.panic
                /\ c.res = c.kids[j].res
                /\ ~BodyEvaluated(c)

\* C7  Arguments are evaluated in the caller's environment: every argument
\* of a call is evaluated against the bindings the caller had before the
\* call.
C7_ArgumentsInCallerEnv ==
    \A c \in CallRecs :
        \A j \in ArgKids(c) : c.kids[j].envIn = c.envIn

\* C8  Call isolation: a call leaves the caller's environment as it was,
\* whatever the callee bound; a call in statement position requests no
\* update either.
C8_CallIsolation ==
    /\ \A c \in CallRecs : c.envOut = c.envIn
    /\ \A r \in LoopRecs :
          \A i \in 1..Len(r.kids) :
              (/\ r.kids[i].node.kind = "ExpressionStatement"
               /\ r.kids[i].node.expression.kind = "Call")
                  => /\ r.kids[i].envOut = r.kids[i].envIn
                     /\ r.kids[i].upd = << >>

\* a top-level call ran its body to the end with x bound to 5 as a parameter
\* and z bound by a let, while the session still has x = 1 and no z
C8_Witness ==
    /\ lastOp = "eval"
    /\ ~panicked
    /\ \E c \in CallRecs :
          /\ BodyEvaluated(c)
          /\ ~c.panic
          /\ c.envIn = ProgramRec.envOut
          /\ "z" \in DOMAIN BodyKid(c).envOut
          /\ BodyKid(c).envOut["x"] = IntegerObj(5)
    /\ "z" \notin DOMAIN environment
    /\ "x" \in DOMAIN environment
    /\ environment["x"] = IntegerObj(1)

\* C9  No partial effects after a failing statement: when Program.eval
\* returns an Error raised by top-level statement k, the session environment
\* is the one statement k started with.
C9_NoPartialEffects ==
    (lastOp = "eval" /\ ~panicked /\ is_error(result)) =>
        /\ Len(ProgramRec.kids) >= 1
        /\ environment = ProgramRec.kids[Len(ProgramRec.kids)].envIn

\* C10 Session resumption: an eval call evaluates no top-level statement an
\* earlier eval call evaluated.
C10_SessionResumption ==
    lastOp = "eval" => LastRun \cap evaluatedBefore = {}

\* an Error object, read off the value itself
IsErrorValue(o) == o.type = "ERROR"

\* C5  Error absorption in operators and conditions: a prefix expression
\* whose operand is an Error, an infix expression whose left or right operand
\* is an Error and an if-expression whose condition is an Error yield exactly
\* that Error; after an Error on the left the right operand is not evaluated,
\* after an Error in the condition no branch is evaluated.
C5_ErrorAbsorption ==
    \A r \in RecsOf({"Prefix", "Infix", "If"}) :
        /\ IsErrorValue(r.kids[1].res) =>
              /\ ~r.panic
              /\ r.res = r.kids[1].res
              /\ Len(r.kids) = 1
        /\ (r.node.kind = "Infix" /\ Len(r.kids) = 2 /\ IsErrorValue(r.kids[2].res)) =>
              /\ ~r.panic
              /\ r.res = r.kids[2].res

\* an if-expression whose condition is an infix expression with an Error on
\* the right was evaluated, and the Error came back as the program's result
C5_Witness ==
    /\ lastOp = "eval"
    /\ IsErrorValue(result)
    /\ \E r \in RecsOf({"Infix"}) :
          /\ Len(r.kids) = 2
          /\ IsErrorValue(r.kids[2].res)
          /\ r.res = result
    /\ \E r \in RecsOf({"If"}) :
          /\ Len(r.kids) = 1
          /\ r.node.consequence # NoNode
          /\ r.res = result

-----------------------------------------------------------------------------
(* Reading what the lexer emitted *)

Input == lexer.input

\* index (from 0) of the first character at or after i that is not
\* whitespace, Len(input) if there is none
RECURSIVE SkipWhitespace(_, _)
SkipWhitespace(input, i) ==
    IF i < Len(input) /\ IsWhitespace(CharAt(input, i))
    THEN SkipWhitespace(input, i + 1)
    ELSE i

\* s without its whitespace
RECURSIVE StripAll(_)
StripAll(s) ==
    IF Len(s) = 0 THEN ""
    ELSE IF IsWhitespace(Head(s)) THEN StripAll(Tail(s))
    ELSE Head(s) \o StripAll(Tail(s))

\* read_position before the k-th call
ReadFrom(k) == IF k = 1 THEN 0 ELSE emitted[k - 1].read_position

\* index (from 0) of the first character of the k-th token
StartOf(k) == SkipWhitespace(Input, ReadFrom(k))

\* the character at index i, "" past the end
CharOrEnd(i) == IF i < Len(Input) THEN CharAt(Input, i) ELSE ""

\* the literal of a token, "" for None
LiteralText(t) == IF t.literal = None THEN "" ELSE t.literal[1]

IsWordOrNumber(t) ==
    t.token_type \in {"IDENT", "INT", "LET", "FUNCTION", "IF", "ELSE",
                      "RETURN", "TRUE", "FALSE"}

\* the literals of emitted[k..n], a space between adjacent word/number tokens
RECURSIVE JoinLiterals(_, _)
JoinLiterals(k, n) ==
    IF k > n THEN ""
    ELSE IF k < n /\ IsWordOrNumber(emitted[k].token)
                  /\ IsWordOrNumber(emitted[k + 1].token)
    THEN LiteralText(emitted[k].token) \o " " \o JoinLiterals(k + 1, n)
    ELSE LiteralText(emitted[k].token) \o JoinLiterals(k + 1, n)

\* the lexer has returned EOF
ReachedEOF == \E k \in 1..Len(emitted) : emitted[k].token.token_type = "EOF"

\* the first call that returned EOF
FirstEOF == CHOOSE k \in 1..Len(emitted) :
               /\ emitted[k].token.token_type = "EOF"
               /\ \A j \in 1..(k - 1) : emitted[j].token.token_type # "EOF"

\* C15  Lexer totality and sticky EOF: every call of next_token returns a
\* token (none panics); the call number Len(input) + 1 at the latest returns
\* EOF; once EOF was returned every later call returns EOF.
C15_LexerTotality ==
    /\ ~panicked
    /\ Len(emitted) >= Len(Input) + 1 =>
          \E k \in 1..(Len(Input) + 1) : emitted[k].token.token_type = "EOF"
    /\ \A j, k \in 1..Len(emitted) :
          (j < k /\ emitted[j].token.token_type = "EOF") =>
              emitted[k].token = Token("EOF", None)

\* C16  Two-character operators: `=` (`!`) directly followed by `=` yields
\* one EQ `==` (NEQ `!=`) token and the call reads both characters; `=` (`!`)
\* followed by anything else or by the end of the input yields ASSIGN (BANG)
\* and the call reads one character; every other token reads exactly the
\* characters of its literal (one character for ILLEGAL), none after them.
C16_TwoCharOperators ==
    \A k \in 1..Len(emitted) :
        LET s == StartOf(k)
            c0 == CharOrEnd(s)
            c1 == CharOrEnd(s + 1)
            t == emitted[k].token
            rp == emitted[k].read_position
        IN  s < Len(Input) =>
              /\ (c0 = "=" /\ c1 = "=") =>
                    (t = Token("EQ", Some("==")) /\ rp = s + 2)
              /\ (c0 = "=" /\ c1 # "=") =>
                    (t = Token("ASSIGN", Some("=")) /\ rp = s + 1)
              /\ (c0 = "!" /\ c1 = "=") =>
                    (t = Token("NEQ", Some("!=")) /\ rp = s + 2)
              /\ (c0 = "!" /\ c1 # "=") =>
                    (t = Token("BANG", Some("!")) /\ rp = s + 1)
              /\ c0 \notin {"=", "!"} =>
                    /\ t.token_type \notin {"EQ", "NEQ", "ASSIGN", "BANG"}
                    /\ rp = s + (IF t.literal = None THEN 1
                                 ELSE Len(t.literal[1]))

\* the lexer returned EQ, then NEQ, and ASSIGN for a `=` that ends the input
C16_Witness ==
    /\ ReachedEOF
    /\ \E j, k \in 1..Len(emitted) :
          /\ j < k
          /\ emitted[j].token.token_type = "EQ"
          /\ emitted[k].token.token_type = "ASSIGN"
          /\ emitted[k].read_position = Len(Input)
          /\ \E i \in 1..Len(emitted) : emitted[i].token.token_type = "NEQ"

\* C17  Lexer round-trip shape: once the lexer has returned EOF, the
\* literals of the tokens before it, joined (a space between adjacent
\* word/number tokens), equal the input up to whitespace.
C17_LexerRoundTrip ==
    ReachedEOF =>
        StripAll(JoinLiterals(1, FirstEOF - 1)) = StripAll(Input)

\* a maximal run of characters of one class: input[s .. e-1]
MaximalRun(IsClass(_), s, e) ==
    /\ 0 <= s /\ s < e /\ e <= Len(Input)
    /\ \A i \in s..(e - 1) : IsClass(CharAt(Input, i))
    /\ s = 0 \/ ~IsClass(CharAt(Input, s - 1))
    /\ e = Len(Input) \/ ~IsClass(CharAt(Input, e))

\* the calls that returned a token starting at s
TokensAt(s) == {k \in 1..Len(emitted) : StartOf(k) = s /\ s < Len(Input)}

\* C18  Word and number tokens: when the lexer is done with the input (it
\* returned EOF, or a call panicked), every maximal run of letters has given
\* exactly one token, of the keyword's kind or IDENT, with the run as literal,
\* every maximal run of digits exactly one INT token, and the call that
\* returned it left the lexer so that the next call reads the character
\* right after the run.
C18_WordAndNumberTokens ==
    (ReachedEOF \/ panicked) =>
        \A s \in 0..Len(Input), e \in 0..Len(Input) :
            /\ MaximalRun(IsAlphabetic, s, e) =>
                  /\ Cardinality(TokensAt(s)) = 1
                  /\ \A k \in TokensAt(s) :
                        /\ emitted[k].token = WordToken(SubSeq(Input, s + 1, e))
                        /\ emitted[k].read_position = e
            /\ MaximalRun(IsNumeric, s, e) =>
                  /\ Cardinality(TokensAt(s)) = 1
                  /\ \A k \in TokensAt(s) :
                        /\ emitted[k].token =
                              Token("INT", Some(SubSeq(Input, s + 1, e)))
                        /\ emitted[k].read_position = e

-----------------------------------------------------------------------------
(* Reading what the parser made *)

\* the levels of the table: EQUALS < LESSGREATER < SUM < PRODUCT
TableLevel(op) ==
    CASE op \in {"==", "!="} -> 1
      [] op \in {"<", ">"} -> 2
      [] op \in {"+", "-"} -> 3
      [] op \in {"*", "/"} -> 4

\* the node an operand text stands for
Operand(text) ==
    IF IsNumeric(text) THEN IntegerLiteralExpression(ParseI64(text, 0))
    ELSE IdentifierExpression(text)

\* ((a op1 b) op2 c), and how it prints
LeftGrouped(x, op1, op2) ==
    InfixExpression(InfixExpression(Operand(x[1]), op1, Operand(x[2])), op2,
                    Operand(x[3]))

LeftGroupedText(x, op1, op2) ==
    "((" \o x[1] \o " " \o op1 \o " " \o x[2] \o ") " \o op2 \o " " \o x[3]
        \o ")"

\* (a op1 (b op2 c)), and how it prints
RightGrouped(x, op1, op2) ==
    InfixExpression(Operand(x[1]), op1,
                    InfixExpression(Operand(x[2]), op2, Operand(x[3])))

RightGroupedText(x, op1, op2) ==
    "(" \o x[1] \o " " \o op1 \o " (" \o x[2] \o " " \o op2 \o " " \o x[3]
        \o "))"

\* parse() returned one expression statement holding `tree`, no errors, and
\* it prints as `text`
ParsedAs(tree, text) ==
    /\ ~parsed.panic
    /\ parsed.errors = << >>
    /\ Len(parsed.statements) = 1
    /\ parsed.statements[1].kind = "ExpressionStatement"
    /\ parsed.statements[1].expression = tree
    /\ ProgramToString(parsed.statements) = text

\* parse() returned one statement that prints as `text`
PrintsAs(text) ==
    /\ ~parsed.panic
    /\ Len(parsed.statements) = 1
    /\ ProgramToString(parsed.statements) = text

\* C11  Precedence correctness: of two adjacent infix operators of different
\* levels of the table the higher one takes the shared operand, whichever
\* comes first; a prefix operator binds tighter than every infix operator and
\* a call tighter than both.
C11_PrecedenceCorrectness ==
    parsed.done =>
      /\ \A x \in OperandProfiles, op1 \in InfixOps, op2 \in InfixOps,
            term \in Terminators :
            (source = TripleSource(x, op1, op2, term)
                 /\ TableLevel(op1) # TableLevel(op2)) =>
               IF TableLevel(op1) > TableLevel(op2)
               THEN ParsedAs(LeftGrouped(x, op1, op2),
                             LeftGroupedText(x, op1, op2))
               ELSE ParsedAs(RightGrouped(x, op1, op2),
                             RightGroupedText(x, op1, op2))
      /\ \A pre \in PrefixOps, op \in InfixOps, term \in Terminators :
            source = PrefixSource(pre, op, term) =>
               PrintsAs("((" \o pre \o "a) " \o op \o " b)")
      /\ \A op \in InfixOps, term \in Terminators :
            source = CallSource(op, term) =>
               PrintsAs("(a " \o op \o " f(b))")
      /\ source = "-f(b);" => PrintsAs("(-f(b))")
      /\ source = "a + b * c + d / e - f;" =>
            PrintsAs("(((a + (b * c)) + (d / e)) - f)")

\* `a + b * c + d / e - f;` was parsed
C11_Witness ==
    /\ parsed.done
    /\ source = "a + b * c + d / e - f;"
    /\ Len(parsed.statements) = 1
    /\ parsed.statements[1].expression.operator = "-"
    /\ parsed.statements[1].expression.left.left.right.operator = "*"

\* C12  Left associativity: two infix operators of the same level group to
\* the left, `a op1 b op2 c` is ((a op1 b) op2 c); a parenthesised group is
\* kept as written, `a op1 (b op2 c)` is (a op1 (b op2 c)).
C12_LeftAssociativity ==
    parsed.done =>
      /\ \A x \in OperandProfiles, op1 \in InfixOps, op2 \in InfixOps,
            term \in Terminators :
            TableLevel(op1) = TableLevel(op2) =>
               /\ source = TripleSource(x, op1, op2, term) =>
                     ParsedAs(LeftGrouped(x, op1, op2),
                              LeftGroupedText(x, op1, op2))
               /\ source = GroupedSource(x, op1, op2, term) =>
                     ParsedAs(RightGrouped(x, op1, op2),
                              RightGroupedText(x, op1, op2))
      /\ source = "1 + (2 + 3) + 4;" => PrintsAs("((1 + (2 + 3)) + 4)")

\* `1 + (2 + 3) + 4;` was parsed to a `+` whose left operand is a `+` with
\* the group on its right
C12_Witness ==
    /\ parsed.done
    /\ source = "1 + (2 + 3) + 4;"
    /\ Len(parsed.statements) = 1
    /\ parsed.statements[1].expression.right = IntegerLiteralExpression(4)
    /\ parsed.statements[1].expression.left.right.kind = "Infix"

\* a tree without the tokens its expression statements were stamped with
RECURSIVE Shape(_)
ShapeAll(nodes) == [i \in 1..Len(nodes) |-> Shape(nodes[i])]

Shape(n) ==
    CASE n.kind = "ExpressionStatement" ->
           [kind |-> "ExpressionStatement", expression |-> Shape(n.expression)]
      [] n.kind = "Let" -> [n EXCEPT !.value = Shape(n.value)]
      [] n.kind = "Return" -> [n EXCEPT !.value = Shape(n.value)]
      [] n.kind = "Block" -> [n EXCEPT !.statements = ShapeAll(n.statements)]
      [] n.kind = "Prefix" -> [n EXCEPT !.right = Shape(n.right)]
      [] n.kind = "Infix" ->
           [n EXCEPT !.left = Shape(n.left), !.right = Shape(n.right)]
      [] n.kind = "If" ->
           [n EXCEPT !.condition = Shape(n.condition),
                     !.consequence = Shape(n.consequence),
                     !.alternative = Shape(n.alternative)]
      [] n.kind = "FunctionLiteral" -> [n EXCEPT !.body = Shape(n.body)]
      [] n.kind = "Call" ->
           [n EXCEPT !.function = Shape(n.function),
                     !.arguments = ShapeAll(n.arguments)]
      [] OTHER -> n

\* the printed program
Printed == ProgramToString(parsed.statements)

\* the print ends in a letter or a digit (on such a text the lexer panics)
PrintedEndsInRun ==
    /\ Len(Printed) > 0
    /\ LET last == SubSeq(Printed, Len(Printed), Len(Printed))
       IN  IsAlphabetic(last) \/ IsNumeric(last)

\* C13  Pretty-print fixed point: the printed form of a program that was
\* parsed without a panic is accepted by the parser (no panic, no errors) and
\* parses to the same tree; stated for the prints that do not end in a
\* letter or a digit.
C13_PrettyPrintFixedPoint ==
    (reparsed.done /\ ~PrintedEndsInRun) =>
      /\ ~reparsed.panic
      /\ reparsed.errors = << >>
      /\ ShapeAll(reparsed.statements) = ShapeAll(parsed.statements)

\* C14  Parse errors are accumulated, not fatal: parse() returns (it does
\* not panic) for every source; for a source with an expected-token mismatch
\* or a statement that starts with a token starting no statement the errors
\* list is then non-empty, for a well-formed source it is empty.
C14_ParseErrorsAccumulated ==
    parsed.done =>
      /\ ~parsed.panic
      /\ source \in MismatchSources \cup BadStartSources =>
            parsed.errors # << >>
      /\ source \in WellFormedSources => parsed.errors = << >>


-----------------------------------------------------------------------------
(* Reading the log: let statements and identifiers *)

\* the environment the loop of record r holds once statement j is done: the
\* one statement j + 1 is given, or the one the loop leaves behind
EnvAfter(r, j) ==
    IF j < Len(r.kids) THEN r.kids[j + 1].envIn ELSE r.envOut

\* statement j of record r is a let whose right-hand side handed back an
\* object
LetBound(r, j) ==
    /\ r.kids[j].node.kind = "Let"
    /\ ~r.kids[j].panic
    /\ r.kids[j].upd # << >>

\* statements j1 + 1 .. j2 - 1 of record r do not bind `name` again
NotRebound(r, name, j1, j2) ==
    \A i \in (j1 + 1)..(j2 - 1) :
        ~(r.kids[i].node.kind = "Let" /\ r.kids[i].node.name = name)

\* C19  Let binding: once a statement `let n = e` of a program or block has
\* run and e evaluated to v, the environment the next statement is given (or
\* the loop leaves behind) is the one the let was given with n bound to v and
\* every other key as it was; every later statement of the loop sees n bound
\* to v until another `let n` runs, and then it sees that one's value.
C19_LetBinding ==
    \A r \in LoopRecs : \A j \in 1..Len(r.kids) :
        LetBound(r, j) =>
            LET k == r.kids[j]
                n == k.node.name
                v == k.upd[1].obj
            IN  /\ Len(k.upd) = 1
                /\ k.upd[1].key = n
                /\ k.node.value.kind = "IntegerLiteral"
                      => v = IntegerObj(k.node.value.int)
                /\ DOMAIN EnvAfter(r, j) = (DOMAIN k.envIn) \cup {n}
                /\ EnvAfter(r, j)[n] = v
                /\ \A key \in (DOMAIN k.envIn) \ {n} :
                       EnvAfter(r, j)[key] = k.envIn[key]
                /\ \A j2 \in (j + 1)..Len(r.kids) :
                       NotRebound(r, n, j, j2) =>
                           /\ n \in DOMAIN r.kids[j2].envIn
                           /\ r.kids[j2].envIn[n] = v

\* one eval call ran `let x = 1`, `let x = 2` and then `return x`, which
\* yielded 2
C19_Witness ==
    /\ lastOp = "eval"
    /\ \E r \in LoopRecs : \E j1, j2, j3 \in 1..Len(r.kids) :
           /\ j1 < j2 /\ j2 < j3
           /\ LetBound(r, j1) /\ r.kids[j1].node = LetXInt(1)
           /\ LetBound(r, j2) /\ r.kids[j2].node = LetXInt(2)
           /\ r.kids[j3].node = ReturnX
           /\ r.kids[j3].res = IntegerObj(2)

\* the node an expression statement wraps, or the node itself
Unwrapped(node) ==
    IF node.kind = "ExpressionStatement" THEN node.expression ELSE node

\* the evaluated children, of any record, that are identifiers
IdentifierKids ==
    UNION {{r.kids[j] : j \in {i \in 1..Len(r.kids) :
                                 Unwrapped(r.kids[i].node).kind = "Identifier"}}
             : r \in Recs}

-----------------------------------------------------------------------------
(* Reading the log: prefix, infix and if expressions *)

\* the records of the prefix expressions with operator op whose operand was
\* evaluated without a panic and did not hand back an Error
PrefixRecs(op) ==
    {r \in RecsOf({"Prefix"}) :
        /\ r.node.operator = op
        /\ ~r.kids[1].panic
        /\ r.kids[1].res.type # "ERROR"}

\* the tags {:?} prints for the types of src/src/types.rs
TypeTags == {"INTEGER", "BOOLEAN", "NULL", "ERROR", "FUNCTION"}

C24_LogicalNot ==
    \A r \in PrefixRecs("!") :
        LET v == r.kids[1].res
        IN  /\ ~r.panic
            /\ IF v.type = "BOOLEAN"
               THEN r.res = [type |-> "BOOLEAN", bval |-> ~v.bval]
               ELSE r.res = [type |-> "BOOLEAN", bval |-> FALSE]


\* the records of the infix expressions whose two operands were both
\* evaluated, without a panic, to values that are not Errors
InfixValueRecs ==
    {r \in RecsOf({"Infix"}) :
        /\ Len(r.kids) = 2
        /\ \A j \in 1..2 :
              /\ ~r.kids[j].panic
              /\ r.kids[j].res.type \in TypeTags \ {"ERROR"}}

\* neither both Integer nor both Boolean
Mismatched(l, r) ==
    /\ ~(l.type = "INTEGER" /\ r.type = "INTEGER")
    /\ ~(l.type = "BOOLEAN" /\ r.type = "BOOLEAN")

\* C22  Type mismatch: when the operands of an infix expression evaluate to
\* values, not Errors, that are neither both Integer nor both Boolean, the
\* result is the Error `type mismatch: LEFT_TYPE OP RIGHT_TYPE`, the left
\* operand's type first and the right operand's type last.
C22_TypeMismatch ==
    \A r \in InfixValueRecs :
        LET lv == r.kids[1].res
            rv == r.kids[2].res
        IN  Mismatched(lv, rv) =>
                /\ ~r.panic
                /\ r.res = [type |-> "ERROR",
                            message |-> "type mismatch: " \o lv.type \o " "
                                          \o r.node.operator \o " " \o rv.type]

\* the last eval call added an Integer and a Boolean: `7 + true`
C22_Witness ==
    /\ lastOp = "eval"
    /\ \E r \in InfixValueRecs :
           /\ r.node.operator = "+"
           /\ r.kids[1].res.type = "INTEGER"
           /\ r.kids[2].res.type = "BOOLEAN"
           /\ r.res.type = "ERROR"
           /\ r.res.message = "type mismatch: INTEGER + BOOLEAN"


\* the records of the if-expressions whose condition was evaluated without a
\* panic and did not hand back an Error
IfRecs ==
    {r \in RecsOf({"If"}) :
        /\ ~r.kids[1].panic
        /\ r.kids[1].res.type # "ERROR"}

\* the condition's result sends the if-expression to its consequence: Boolean
\* true, or a value that is no Boolean
Truthy(c) ==
    \/ c.type = "BOOLEAN" /\ c.bval
    \/ c.type \in {"INTEGER", "FUNCTION", "NULL"}

\* C23  If-expression branching: an if-expression evaluates at most one
\* branch: the consequence when the condition is Boolean true or a value that
\* is no Boolean (Integer 0 included); the alternative when the condition is
\* Boolean false or yields no value and there is an alternative; neither, and
\* the result is no value, when the condition is false or yields no value and
\* there is no alternative.
C23_IfBranching ==
    \A r \in IfRecs :
        LET c == r.kids[1].res
        IN  /\ r.kids[1].node = r.node.condition
            /\ Len(r.kids) <= 2
            /\ IF Truthy(c)
               THEN /\ Len(r.kids) = 2
                    /\ r.kids[2].node = r.node.consequence
               ELSE IF r.node.alternative # NoNode
               THEN /\ Len(r.kids) = 2
                    /\ r.kids[2].node = r.node.alternative
               ELSE /\ Len(r.kids) = 1
                    /\ r.res = [type |-> "NONE"]
                    /\ ~r.panic
            /\ Len(r.kids) = 2 =>
                  /\ r.panic = r.kids[2].panic
                  /\ ~r.panic => r.res = r.kids[2].res

\* the last eval call ran `if (0) { 7 } else { 0 }`: the condition is Integer
\* 0 and the consequence ran
C23_Witness ==
    /\ lastOp = "eval"
    /\ \E r \in IfRecs :
           /\ r.kids[1].res = IntegerObj(0)
           /\ r.node.alternative # NoNode
           /\ r.node.alternative # r.node.consequence
           /\ Len(r.kids) = 2
           /\ r.kids[2].node = r.node.consequence
           /\ r.res = IntegerObj(7)


-----------------------------------------------------------------------------
(* Reading the log: function literals and calls *)

\* the Function object a function literal makes in environment env
FunctionOf(literal, env) ==
    [type |-> "FUNCTION", parameters |-> literal.parameters,
     body |-> literal.body, env |-> env]

\* child j of record r is a function literal (or the expression statement of
\* one)
IsLiteralKid(r, j) == Unwrapped(r.kids[j].node).kind = "FunctionLiteral"

\* statement j of record r is a let whose right-hand side is a function
\* literal
IsLiteralLet(r, j) ==
    /\ r.kids[j].node.kind = "Let"
    /\ r.kids[j].node.value.kind = "FunctionLiteral"

\* evaluating the literal hands back the Function object and leaves the
\* environment alone
LiteralEvaluated ==
    /\ \A r \in Recs : \A j \in 1..Len(r.kids) :
           IsLiteralKid(r, j) =>
               /\ ~r.kids[j].panic
               /\ r.kids[j].res =
                     FunctionOf(Unwrapped(r.kids[j].node), r.kids[j].envIn)
               /\ r.kids[j].envOut = r.kids[j].envIn
    /\ \A r \in LoopRecs : \A j \in 1..Len(r.kids) :
           IsLiteralLet(r, j) =>
               r.kids[j].upd =
                  <<[key |-> r.kids[j].node.name,
                     obj |-> FunctionOf(r.kids[j].node.value, r.kids[j].envIn)]>>

\* C25  Function literal evaluation: evaluating a function literal, as the
\* right-hand side of a let, as the callee of a call or as an expression
\* statement, yields a Function object holding the literal's parameters, its
\* body and a copy of the environment of that moment; the statement completes
\* and leaves the environment as it was (but for the binding of the let).
C25_FunctionLiteral ==
    /\ LiteralEvaluated
    /\ \A r \in LoopRecs : \A j \in 1..Len(r.kids) :
           (IsLiteralKid(r, j) /\ j = Len(r.kids)) =>
               /\ ~r.panic
               /\ r.envOut = r.kids[j].envIn


-----------------------------------------------------------------------------
(* Reading what the parser made: binders *)

\* the names the nodes bind: the name of every Let and every parameter of
\* every FunctionLiteral
RECURSIVE BinderNames(_)
RECURSIVE BinderNamesAll(_)
BinderNamesAll(nodes) == UNION {BinderNames(nodes[i]) : i \in 1..Len(nodes)}

BinderNames(n) ==
    CASE n.kind = "ExpressionStatement" -> BinderNames(n.expression)
      [] n.kind = "Let" -> {n.name} \cup BinderNames(n.value)
      [] n.kind = "Return" -> BinderNames(n.value)
      [] n.kind = "Block" -> BinderNamesAll(n.statements)
      [] n.kind = "Prefix" -> BinderNames(n.right)
      [] n.kind = "Infix" -> BinderNames(n.left) \cup BinderNames(n.right)
      [] n.kind = "If" ->
           BinderNames(n.condition) \cup BinderNames(n.consequence)
             \cup BinderNames(n.alternative)
      [] n.kind = "FunctionLiteral" ->
           {n.parameters[i].id : i \in 1..Len(n.parameters)}
             \cup BinderNames(n.body)
      [] n.kind = "Call" ->
           BinderNames(n.function) \cup BinderNamesAll(n.arguments)
      [] OTHER -> {}

\* the text is what the lexer makes an IDENT token of: a run of letters that
\* is no keyword
IsIdentText(text) ==
    /\ Len(text) > 0
    /\ \A i \in 1..Len(text) : IsAlphabetic(SubSeq(text, i, i))
    /\ text \notin {"let", "fn", "if", "else", "return", "true", "false"}

\* C26  Binder names are identifiers: in every tree parse() returns, the name
\* of every Let and every parameter of every FunctionLiteral is the text of
\* an IDENT token; a source with another token in that place yields no such
\* node.
C26_BinderNamesAreIdentifiers ==
    (parsed.done /\ ~parsed.panic) =>
        \A name \in BinderNamesAll(parsed.statements) : IsIdentText(name)


-----------------------------------------------------------------------------
(* Reading the log: divisions *)

\* the records of the divisions of two Integers
DivisionRecs ==
    {r \in InfixValueRecs :
        /\ r.node.operator = "/"
        /\ r.kids[1].res.type = "INTEGER"
        /\ r.kids[2].res.type = "INTEGER"}

Abs(n) == IF n < 0 THEN 0 - n ELSE n

\* C27  Integer division truncates toward zero: for Integers a and b, b not
\* 0, `a / b` yields the Integer q with a = q * b + r, |r| < |b| and r zero
\* or of the sign of a (-7 / 2 is -3, 7 / -2 is -3, 7 / 2 is 3).
C27_DivisionTruncates ==
    \A r \in DivisionRecs :
        LET a == r.kids[1].res.ival
            b == r.kids[2].res.ival
        IN  b # 0 =>
                /\ ~r.panic
                /\ r.res.type = "INTEGER"
                /\ LET rem == a - r.res.ival * b
                   IN  /\ Abs(rem) < Abs(b)
                       /\ rem = 0 \/ (rem < 0) = (a < 0)
                /\ (a = -7 /\ b = 2) => r.res.ival = -3
                /\ (a = 7 /\ b = -2) => r.res.ival = -3
                /\ (a = 7 /\ b = 2) => r.res.ival = 3

\* the last eval call divided -7 by 2 and handed back -3
C27_Witness ==
    /\ lastOp = "eval"
    /\ \E r \in DivisionRecs :
           /\ r.kids[1].res.ival = -7
           /\ r.kids[2].res.ival = 2
           /\ r.res.type = "INTEGER"
           /\ r.res.ival = -3

\* C28  Division by zero aborts: `a / b` with both operands Integer and b
\* evaluating to 0 panics; the eval call hands no result back, the session
\* is over and no later statement is evaluated.
C28_DivisionByZeroAborts ==
    \A r \in DivisionRecs :
        r.kids[2].res.ival = 0 =>
            /\ r.panic
            /\ r.res = [type |-> "NONE"]
            /\ panicked
            /\ result = [type |-> "NONE"]
            /\ ProgramRec.panic
            /\ ~ENABLED ProgramEval
            /\ \A chunk \in Chunks : ~ENABLED Extend(chunk)

\* the last eval call divided 7 by 0
C28_Witness ==
    /\ lastOp = "eval"
    /\ \E r \in DivisionRecs :
           /\ r.kids[1].res.ival = 7
           /\ r.kids[2].res.ival = 0
    /\ panicked


-----------------------------------------------------------------------------
(* The session's statement index *)

\* the last eval call was stopped by a top-level `return` statement
EndedByReturn ==
    /\ Len(ProgramRec.kids) > 0
    /\ ProgramRec.kids[Len(ProgramRec.kids)].node.kind = "Return"

\* the last call was an eval that ran to the end of its loop: no panic, no
\* Error handed back, no `return` statement
EvalRanThrough ==
    /\ lastOp = "eval"
    /\ ~panicked
    /\ result.type # "ERROR"
    /\ ~EndedByReturn

IndexInRange ==
    /\ 0 <= current_idx
    /\ current_idx <= Len(statements)
    /\ EvalRanThrough => current_idx = Len(statements)

\* what one call of extend or eval does to the index
IndexStep ==
    /\ current_idx' >= current_idx
    /\ lastOp' = "extend" =>
          /\ Len(statements') >= Len(statements)
          /\ SubSeq(statements', 1, Len(statements)) = statements
          /\ current_idx' = current_idx
          /\ environment' = environment
    /\ lastOp' = "eval" =>
          /\ statements' = statements
          /\ current_idx = Len(statements) =>
                /\ result' = [type |-> "NONE"]
                /\ current_idx' = current_idx
                /\ environment' = environment
                /\ ~panicked'

\* C29  Statement-index invariant of a session: 0 <= current_idx <=
\* statements.len() in every reachable state and current_idx never decreases;
\* extend only appends to statements and leaves current_idx and the
\* environment alone; after an eval call that ends without an Error or a
\* `return`, current_idx = statements.len(); an eval call made when
\* current_idx = statements.len() hands back None and changes neither
\* current_idx nor the environment.
C29_StatementIndex == []IndexInRange /\ [][IndexStep]_vars

\* an eval call was made when every statement had been evaluated: it
\* evaluated nothing
C29_Witness ==
    /\ lastOp = "eval"
    /\ Len(statements) >= 2
    /\ current_idx = Len(statements)
    /\ ProgramRec.kids = << >>
    /\ result = NoneObj


-----------------------------------------------------------------------------
(* Reading the log: calls and their arguments *)

\* the calls whose callee evaluated to a Function
FunctionCalls ==
    {c \in CallRecs : ~c.kids[1].panic /\ c.kids[1].res.type = "FUNCTION"}

\* every argument of call c was evaluated, without a panic, to some object
ArgumentsEvaluated(c) ==
    /\ Len(c.kids) >= Len(c.node.arguments) + 1
    /\ \A j \in ArgKids(c) :
          ~c.kids[j].panic /\ c.kids[j].res.type # "NONE"

\* the names of the first n parameters of function f
LeadingNames(f, n) == {f.parameters[i].id : i \in 1..n}

\* C30  Arity mismatch in calls: a call with more arguments than the function
\* has parameters panics and hands nothing back; a call with fewer arguments
\* than parameters raises no arity error: the body is evaluated with the
\* supplied leading parameters bound to the arguments, and each parameter
\* that was not supplied is, in the body's environment, what the caller's
\* environment holds under that name, or absent if the caller holds none (so
\* that it evaluates to the `unknown identifier` Error).
C30_ArityMismatch ==
    \A c \in FunctionCalls :
        LET f == c.kids[1].res
            nArgs == Len(c.node.arguments)
            nParams == Len(f.parameters)
        IN  /\ nArgs > nParams =>
                  /\ c.panic
                  /\ ~BodyEvaluated(c)
                  /\ c.res = [type |-> "NONE"]
            /\ (nArgs < nParams /\ ArgumentsEvaluated(c)) =>
                  /\ BodyEvaluated(c)
                  /\ \A i \in 1..nArgs :
                        f.parameters[i].id \notin
                              {f.parameters[k].id : k \in (i + 1)..nArgs}
                          => BodyKid(c).envIn[f.parameters[i].id]
                                = c.kids[i + 1].res
                  /\ \A i \in (nArgs + 1)..nParams :
                        LET name == f.parameters[i].id
                        IN  name \notin LeadingNames(f, nArgs) =>
                              IF name \in DOMAIN c.envIn
                              THEN /\ name \in DOMAIN BodyKid(c).envIn
                                   /\ BodyKid(c).envIn[name] = c.envIn[name]
                              ELSE name \notin DOMAIN BodyKid(c).envIn

\* the last eval call ran `fn(a) { a }()` in a session that had bound a to 7:
\* the body ran and handed back 7
C30_Witness ==
    /\ lastOp = "eval"
    /\ \E c \in FunctionCalls :
           /\ Len(c.node.arguments) = 0
           /\ Len(c.kids[1].res.parameters) = 1
           /\ c.kids[1].res.parameters[1].id = "a"
           /\ "a" \in DOMAIN c.envIn
           /\ BodyEvaluated(c)
           /\ ~c.panic
           /\ c.res = IntegerObj(7)

====
